---- MODULE Spec2Model ----
(***************************************************************************)
(* A model of the PMCC bot: the Position Store (models.py), the /close,    *)
(* /add_leaps, /add_short and /clear command handlers (bot.py) and the     *)
(* Position Evaluator (alerts.py).  The Store is the SQLite backend, the   *)
(* one main.py opens (Database(config.DB_PATH)); SQLite does not enforce   *)
(* the schema's foreign keys, as no connection turns them on.              *)
(*                                                                         *)
(* Money is kept in cents, so the prices of the source (6.50, 109.00) are  *)
(* the integers 650 and 10900 and every formula of the source is applied   *)
(* unchanged to them.  A quotient the source leaves as a float is kept as  *)
(* an exact fraction [num, den]; binary floating-point rounding is not     *)
(* modelled.  A nullable column is a set with at most one element.         *)
(***************************************************************************)
EXTENDS Integers, Sequences, FiniteSets, TLC

VARIABLES
    leaps,               \* table leaps: id -> row
    short_calls,         \* table short_calls: id -> row
    cost_basis_history,  \* table cost_basis_history, in insertion order
    leaps_seq,           \* last id handed out for leaps (AUTOINCREMENT / BIGSERIAL)
    short_seq,           \* last id handed out for short_calls
    reply,               \* the last command handled and what it answered
    alerts,              \* table alerts, in insertion order (id = index)
    now,                 \* datetime.now(), in seconds
    lastEval,            \* the last _check_position call and what it returned
    cfg,                 \* config.py thresholds
    inp,                 \* inputs of the evaluation under SpecEval
    pc,                  \* position of the evaluation under SpecEval
    thread,              \* the scheduler thread and the cycle it is running
    due,                 \* whether the check_positions job is due
    running,             \* check_all_positions calls in progress
    sent,                \* alert ids notified by the last check_positions call
    notified,            \* send_alert calls made so far, counted by alert id
    scan,                \* the last scan: what it raised, collected and returned
    conversations        \* ConversationStateManager.conversations, by user id

storeVars == <<leaps, short_calls, cost_basis_history, leaps_seq, short_seq, reply>>
alertVars == <<alerts, now, lastEval>>
evalVars  == <<cfg, inp, pc, scan>>
cycleVars == <<thread, due, running, sent, notified>>
chatVars  == <<conversations>>
vars == <<leaps, short_calls, cost_basis_history, leaps_seq, short_seq, reply,
          alerts, now, lastEval, cfg, inp, pc, thread, due, running, sent,
          notified, scan,
          conversations>>

------------------------------------------------------------------------------
(* Bounds of the model *)

MaxLeaps == 2
MaxShorts == 1
MaxLedger == 2
MaxAlerts == 2
MaxSends == 2

LeapsPrices == {10900}
LeapsQuantities == {0, 2}
ShortPrices == {650}
ShortQuantities == {2}
ShortStrikes == {73000}
ExitPrices == {0, 325}
Faults == {"none", "update", "insert", "commit"}

------------------------------------------------------------------------------
(* Values *)

Null == {}
Some(v) == {v}
Get(opt) == CHOOSE v \in opt : TRUE

Frac(n, d) == [num |-> n, den |-> d]
\* a/b = c/d for fractions with non-zero denominators
FracEq(a, b) == a.num * b.den = b.num * a.den

Tok(v) == [numeric |-> TRUE, val |-> v, nan |-> FALSE]
Word == [numeric |-> FALSE, val |-> 0, nan |-> FALSE]
\* the argument "nan", which float() turns into a NaN and int() rejects
NanTok == [numeric |-> TRUE, val |-> 0, nan |-> TRUE]

\* int(arg) does not raise ValueError
int_accepts(tok) == tok.numeric /\ ~tok.nan

\* a float() that accepts every argument
float_accepts_any(tok) == TRUE

\* float(arg) does not raise ValueError
float_accepts(tok) == tok.numeric

EmptyTable == [i \in {} |-> 0]
Insert(table, id, row) == [i \in DOMAIN table \cup {id} |-> IF i = id THEN row ELSE table[i]]

RECURSIVE SumSeq(_)
SumSeq(s) == IF s = << >> THEN 0 ELSE Head(s) + SumSeq(Tail(s))

SelectRows(s, Test(_)) == SelectSeq(s, Test)

------------------------------------------------------------------------------
(* models.py: LeapsPosition *)

LeapsRow(entry_price, quantity) ==
    [entry_price |-> entry_price, quantity |-> quantity, status |-> "active"]

LeapsPosition_get_by_id(lp, leaps_id) ==
    IF leaps_id \in DOMAIN lp THEN Some(lp[leaps_id]) ELSE Null

\* SELECT COALESCE(SUM(adjustment_amount), 0) FROM cost_basis_history WHERE leaps_id = ?
total_adjustments(hist, leaps_id) ==
    LET rows == SelectRows(hist, LAMBDA r : r.leaps_id = leaps_id)
    IN  SumSeq([i \in 1..Len(rows) |-> rows[i].adjustment_amount])

\* The float returned, or the exception raised by the division.
get_adjusted_cost_basis(lp, hist, leaps_id) ==
    LET found == LeapsPosition_get_by_id(lp, leaps_id)
    IN  IF found = Null
        THEN [raised |-> "none", value |-> Frac(0, 1)]
        ELSE LET row == Get(found)
                 adjusted_cost == row.entry_price * row.quantity
                                    - total_adjustments(hist, leaps_id)
             IN  IF row.quantity = 0
                 THEN [raised |-> "ZeroDivisionError", value |-> Frac(0, 1)]
                 ELSE [raised |-> "none", value |-> Frac(adjusted_cost, row.quantity)]

------------------------------------------------------------------------------
(* models.py: ShortCall *)

ShortRow(leaps_id, strike, entry_price, quantity) ==
    [leaps_id |-> leaps_id, strike |-> strike, entry_price |-> entry_price,
     quantity |-> quantity, status |-> "active", exit_price |-> Null, profit |-> Null]

\* SELECT sc.* FROM short_calls sc JOIN leaps l ON sc.leaps_id = l.id WHERE sc.id = ?
ShortCall_get_by_id(lp, sc, short_call_id) ==
    IF short_call_id \in DOMAIN sc /\ sc[short_call_id].leaps_id \in DOMAIN lp
    THEN Some(sc[short_call_id])
    ELSE Null

\* ... WHERE sc.status = 'active'
ShortCall_get_active(lp, sc) ==
    {i \in DOMAIN sc : sc[i].leaps_id \in DOMAIN lp /\ sc[i].status = "active"}

\* every statement committed as it is issued
NoRollback(committed, working, raised) == working

\* `with self.db.get_connection() as conn`: the block's writes are committed when
\* it ends normally and rolled back when it ends by an exception.
Transaction(committed, working, raised) ==
    IF raised = "none" THEN working ELSE committed

CloseProfit(entry_price, exit_price, quantity) ==
    (entry_price - exit_price) * quantity * 100

\* `return 0.0` in place of the raise
CloseNotFoundSilent(committed) == [raised |-> "none", profit |-> 0, db |-> committed]

\* raise ValueError(f"Short call {short_call_id} not found")
CloseNotFound(committed) == [raised |-> "ValueError", profit |-> 0, db |-> committed]

\* ShortCall.close on the tables (lp, sc, hist).  fault names the statement at
\* which the database fails ("none": it does not).
ShortCall_close(lp, sc, hist, short_call_id, exit_price, fault) ==
    LET found == ShortCall_get_by_id(lp, sc, short_call_id)
        committed == [short_calls |-> sc, cost_basis_history |-> hist]
    IN  IF found = Null
        THEN CloseNotFound(committed)
        ELSE
        LET short_call == Get(found)
            profit == CloseProfit(short_call.entry_price, exit_price, short_call.quantity)
            updated == [committed EXCEPT !.short_calls[short_call_id] =
                           [@ EXCEPT !.status = "closed",
                                     !.exit_price = Some(exit_price),
                                     !.profit = Some(profit)]]
            leaps_row == lp[short_call.leaps_id]
            adjusted_cost == leaps_row.entry_price * leaps_row.quantity - profit \div 100
            inserted == [updated EXCEPT !.cost_basis_history = Append(@,
                           [leaps_id |-> short_call.leaps_id,
                            short_call_id |-> short_call_id,
                            adjustment_amount |-> profit \div 100,
                            adjusted_cost |-> Frac(adjusted_cost, leaps_row.quantity)])]
            raised == IF fault = "update" THEN "DatabaseError"
                      ELSE IF leaps_row.quantity = 0 THEN "ZeroDivisionError"
                      ELSE IF fault \in {"insert", "commit"} THEN "DatabaseError"
                      ELSE "none"
            working == IF fault = "update" THEN committed
                       ELSE IF leaps_row.quantity = 0 \/ fault = "insert" THEN updated
                       ELSE inserted
        IN  [raised |-> raised, profit |-> profit,
             db |-> Transaction(committed, working, raised)]

------------------------------------------------------------------------------
(* bot.py: the command handlers *)

Reply(cmd, outcome, error, id, exit_price, fault, profit, basis) ==
    [cmd |-> cmd, outcome |-> outcome, error |-> error, id |-> id,
     exit_price |-> exit_price, fault |-> fault, profit |-> profit, basis |-> basis]

NoReply == Reply("none", "none", "none", 0, 0, "none", Null, Null)

\* /add_leaps <symbol> <strike> <expiration> <price> <quantity>
AddLeapsArgs ==
    {<< >>, <<Word, Tok(62000), Word, Word, Tok(2)>>}
    \cup {<<Word, Tok(62000), Word, Tok(p), Tok(q)>> : p \in LeapsPrices, q \in LeapsQuantities}

cmd_add_leaps(args) ==
    /\ leaps_seq < MaxLeaps
    /\ IF Len(args) < 5
       THEN /\ reply' = Reply("add_leaps", "usage", "none", 0, 0, "none", Null, Null)
            /\ UNCHANGED <<leaps, leaps_seq>>
       ELSE IF ~(args[2].numeric /\ args[4].numeric /\ args[5].numeric)
       THEN /\ reply' = Reply("add_leaps", "error", "ValueError", 0, 0, "none", Null, Null)
            /\ UNCHANGED <<leaps, leaps_seq>>
       ELSE /\ leaps_seq' = leaps_seq + 1
            /\ leaps' = Insert(leaps, leaps_seq + 1, LeapsRow(args[4].val, args[5].val))
            /\ reply' = Reply("add_leaps", "ok", "none", leaps_seq + 1, 0, "none", Null, Null)
    /\ UNCHANGED <<short_calls, cost_basis_history, short_seq>>

\* /add_short <leaps_id> <symbol> <strike> <expiration> <price> <quantity>
AddShortArgs ==
    {<< >>, <<Word, Word, Tok(73000), Word, Tok(650), Tok(2)>>}
    \cup {<<Tok(l), Word, Tok(k), Word, Tok(p), Tok(q)>> :
            l \in 1..MaxLeaps, k \in ShortStrikes, p \in ShortPrices, q \in ShortQuantities}

cmd_add_short(args) ==
    /\ short_seq < MaxShorts
    /\ IF Len(args) < 6
       THEN /\ reply' = Reply("add_short", "usage", "none", 0, 0, "none", Null, Null)
            /\ UNCHANGED <<short_calls, short_seq>>
       ELSE IF ~(args[1].numeric /\ args[3].numeric /\ args[5].numeric /\ args[6].numeric)
       THEN /\ reply' = Reply("add_short", "error", "ValueError", 0, 0, "none", Null, Null)
            /\ UNCHANGED <<short_calls, short_seq>>
       ELSE /\ short_seq' = short_seq + 1
            /\ short_calls' = Insert(short_calls, short_seq + 1,
                                ShortRow(args[1].val, args[3].val, args[5].val, args[6].val))
            /\ reply' = Reply("add_short", "ok", "none", short_seq + 1, 0, "none", Null, Null)
    /\ UNCHANGED <<leaps, cost_basis_history, leaps_seq>>

\* /close <short_call_id> <exit_price>
CloseArgs ==
    {<< >>, <<Tok(1)>>, <<Word, Tok(325)>>, <<Tok(1), Word>>}
    \cup {<<Tok(i), Tok(x)>> : i \in 1..(MaxShorts + 1), x \in ExitPrices}

\* A NaN exit price gives a NaN adjustment, which sqlite3 binds as NULL: the
\* INSERT into cost_basis_history fails on adjustment_amount REAL NOT NULL.
NanFault(price, fault) ==
    IF price.nan /\ fault # "update" THEN "insert" ELSE fault

cmd_close(args, fault) ==
    /\ Len(cost_basis_history) < MaxLedger
    /\ IF Len(args) < 2
       THEN /\ reply' = Reply("close", "usage", "none", 0, 0, "none", Null, Null)
            /\ UNCHANGED <<short_calls, cost_basis_history>>
       ELSE IF ~(int_accepts(args[1]) /\ float_accepts(args[2]))
       THEN /\ reply' = Reply("close", "invalid", "none", 0, 0, "none", Null, Null)
            /\ UNCHANGED <<short_calls, cost_basis_history>>
       ELSE LET short_call_id == args[1].val
                exit_price == args[2].val
                res == ShortCall_close(leaps, short_calls, cost_basis_history,
                                       short_call_id, exit_price,
                                       NanFault(args[2], fault))
            IN  /\ short_calls' = res.db.short_calls
                /\ cost_basis_history' = res.db.cost_basis_history
                /\ IF res.raised # "none"
                   THEN reply' = Reply("close", "error", res.raised, short_call_id,
                                       exit_price, fault, Null, Null)
                   ELSE
                   LET position == ShortCall_get_by_id(leaps, res.db.short_calls,
                                                       short_call_id)
                   IN  IF position = Null
                       THEN \* position['leaps_id'] on None
                            reply' = Reply("close", "error", "TypeError", short_call_id,
                                           exit_price, fault, Null, Null)
                       ELSE
                       LET basis == get_adjusted_cost_basis(leaps,
                                       res.db.cost_basis_history, Get(position).leaps_id)
                       IN  IF basis.raised # "none"
                           THEN reply' = Reply("close", "error", basis.raised,
                                               short_call_id, exit_price, fault, Null, Null)
                           ELSE reply' = Reply("close", "ok", "none", short_call_id,
                                               exit_price, fault, Some(res.profit),
                                               Some(basis.value))
    /\ UNCHANGED <<leaps, leaps_seq, short_seq>>

\* An argument of /clear is a word: the sequence of its characters.
UpperCase == <<"C", "F", "I", "M", "N", "O", "R", "Y", "E", "S">>
LowerCase == <<"c", "f", "i", "m", "n", "o", "r", "y", "e", "s">>

\* str.lower()
Lower(word) ==
    [i \in 1..Len(word) |->
        IF \E n \in 1..Len(UpperCase) : UpperCase[n] = word[i]
        THEN LowerCase[CHOOSE n \in 1..Len(UpperCase) : UpperCase[n] = word[i]]
        ELSE word[i]]

\* the comparison without lower()
IsConfirmExact(word) == word = <<"c", "o", "n", "f", "i", "r", "m">>

\* context.args[0].lower() == "confirm"
IsConfirm(word) == Lower(word) = <<"c", "o", "n", "f", "i", "r", "m">>

ClearArgs ==
    {<< >>,
     << <<"c", "o", "n", "f", "i", "r", "m">> >>,
     << <<"C", "O", "N", "F", "I", "R", "M">> >>,
     << <<"C", "o", "n", "f", "i", "r", "m">> >>,
     << <<"y", "e", "s">> >>,
     << <<"y", "e", "s">>, <<"c", "o", "n", "f", "i", "r", "m">> >>}

\* /clear [confirm]; reply keeps the arguments
cmd_clear(args) ==
    /\ IF Len(args) = 0 \/ ~IsConfirm(args[1])
       THEN /\ reply' = [cmd |-> "clear", outcome |-> "usage", error |-> "none",
                         args |-> args]
            /\ UNCHANGED <<leaps, short_calls, cost_basis_history, alerts>>
       ELSE /\ cost_basis_history' = << >>
            /\ alerts' = << >>
            /\ short_calls' = EmptyTable
            /\ leaps' = EmptyTable
            /\ reply' = [cmd |-> "clear", outcome |-> "ok", error |-> "none",
                         args |-> args]
    /\ UNCHANGED <<leaps_seq, short_seq>>

------------------------------------------------------------------------------
(* models.py: Alert *)

AlertTypes == {"profit_50", "profit_80", "strike_threatened", "expiration_approaching"}

\* INSERT INTO alerts (short_call_id, alert_type, message, triggered_at); the new id
Alert_add(store, t, short_call_id, alert_type) ==
    Append(store, [id |-> Len(store) + 1, short_call_id |-> short_call_id,
                   alert_type |-> alert_type, triggered_at |-> t, acknowledged |-> 0])

\* The ids in S, latest triggered_at first (rows with equal triggered_at: latest id first)
RECURSIVE OrderByTriggeredDesc(_, _)
OrderByTriggeredDesc(store, S) ==
    IF S = {} THEN << >>
    ELSE LET first == CHOOSE i \in S : \A j \in S :
                         \/ store[j].triggered_at < store[i].triggered_at
                         \/ store[j].triggered_at = store[i].triggered_at /\ j <= i
         IN  <<store[first]>> \o OrderByTriggeredDesc(store, S \ {first})

\* SELECT * FROM alerts WHERE acknowledged = 0 ORDER BY triggered_at DESC
Alert_get_unacknowledged(store) ==
    OrderByTriggeredDesc(store, {i \in 1..Len(store) : store[i].acknowledged = 0})

\* the UPDATE without its WHERE clause
Alert_acknowledge_all(store, alert_id) ==
    [i \in 1..Len(store) |-> [store[i] EXCEPT !.acknowledged = 1]]

\* UPDATE alerts SET acknowledged = 1 WHERE id = ?
Alert_acknowledge(store, alert_id) ==
    [i \in 1..Len(store) |-> IF store[i].id = alert_id
                             THEN [store[i] EXCEPT !.acknowledged = 1]
                             ELSE store[i]]

------------------------------------------------------------------------------
(* alerts.py: AlertMonitor *)

DedupWindow == 3600
SecondsPerDay == 86400

\* timedelta.seconds: the seconds field of the normalised (days, seconds, microseconds)
TimedeltaSeconds(delta) == delta % SecondsPerDay

\* alert['id'] in place of alert['short_call_id']
SameAlertKeyById(alert, short_call_id, alert_type) ==
    alert.id = short_call_id /\ alert.alert_type = alert_type

SameAlertKey(alert, short_call_id, alert_type) ==
    alert.short_call_id = short_call_id /\ alert.alert_type = alert_type

IsRecent(t, triggered_at) == TimedeltaSeconds(t - triggered_at) < DedupWindow

Returned(alert) ==
    [id |-> alert.id, short_call_id |-> alert.short_call_id,
     alert_type |-> alert.alert_type, triggered_at |-> alert.triggered_at]

\* _create_alert at time t: the store afterwards and the alert returned
create_alert(store, t, short_call_id, alert_type) ==
    LET existing_alerts == Alert_get_unacknowledged(store)
        dup == {i \in 1..Len(existing_alerts) :
                   /\ SameAlertKey(existing_alerts[i], short_call_id, alert_type)
                   /\ IsRecent(t, existing_alerts[i].triggered_at)}
    IN  IF dup # {}
        THEN [alerts |-> store,
              alert |-> Returned(existing_alerts[CHOOSE i \in dup : \A j \in dup : i <= j])]
        ELSE LET added == Alert_add(store, t, short_call_id, alert_type)
             IN  [alerts |-> added, alert |-> Returned(added[Len(added)])]

Abs(x) == IF x < 0 THEN -x ELSE x

\* fractions with positive denominators
FracGe(a, b) == a.num * b.den >= b.num * a.den
FracLt(a, b) == a.num * b.den < b.num * a.den
FracLe(a, b) == a.num * b.den <= b.num * a.den

\* the first condition without its upper limit
IsProfit50NoUpper(c, profit_pct) == FracGe(profit_pct, c.PROFIT_THRESHOLD_LOW)

IsProfit50(c, profit_pct) ==
    FracGe(profit_pct, c.PROFIT_THRESHOLD_LOW) /\ FracLt(profit_pct, c.PROFIT_THRESHOLD_HIGH)

IsProfit80(c, profit_pct) == FracGe(profit_pct, c.PROFIT_THRESHOLD_HIGH)

\* the fourth condition without its limit on the profit
IsExpirationApproachingAnyProfit(c, dte, profit_pct) ==
    dte <= c.LOW_PROFIT_DTE_THRESHOLD

IsExpirationApproaching(c, dte, profit_pct) ==
    dte <= c.LOW_PROFIT_DTE_THRESHOLD /\ FracLt(profit_pct, c.PROFIT_THRESHOLD_LOW)

\* the ask alone, without the fallback to the last price
current_price_ask_only(quote) == quote.ask

\* quote.get('ask', 0), then quote.get('last', 0)
current_price_of(quote) == IF quote.ask > 0 THEN quote.ask ELSE quote.last

profit_pct_of(entry_price, current_price) ==
    IF entry_price > 0 THEN Frac(entry_price - current_price, entry_price) ELSE Frac(0, 1)

Trigger(acc, t, cond, short_call_id, alert_type) ==
    IF cond
    THEN LET r == create_alert(acc.alerts, t, short_call_id, alert_type)
         IN  [alerts |-> r.alerts, returned |-> Append(acc.returned, r.alert)]
    ELSE acc

\* _check_position at time t on the alert table `store`: what it raises, the table
\* afterwards and the list it returns (nothing when it raises).
check_position(store, t, c, position, quote, underlying_quote, dte) ==
    LET nothing == [raised |-> "none", alerts |-> store, returned |-> << >>]
    IN  IF quote = Null THEN nothing
        ELSE IF current_price_of(Get(quote)) <= 0 THEN nothing
        ELSE
        LET current_price == current_price_of(Get(quote))
            entry_price == position.entry_price
            profit_pct == profit_pct_of(entry_price, current_price)
            underlying_price == IF underlying_quote = Null THEN 0
                                ELSE Get(underlying_quote).last
            a0 == [alerts |-> store, returned |-> << >>]
            a1 == Trigger(a0, t, IsProfit50(c, profit_pct), position.id, "profit_50")
            a2 == Trigger(a1, t, IsProfit80(c, profit_pct), position.id, "profit_80")
        IN  IF underlying_price > 0 /\ position.strike = 0
            THEN [raised |-> "ZeroDivisionError", alerts |-> a2.alerts, returned |-> << >>]
            ELSE
            LET threatened ==
                    /\ underlying_price > 0
                    /\ FracLe(Frac(Abs(underlying_price - position.strike), position.strike),
                              c.STRIKE_PROXIMITY_PCT)
                a3 == Trigger(a2, t, threatened, position.id, "strike_threatened")
                a4 == Trigger(a3, t, IsExpirationApproaching(c, dte, profit_pct),
                              position.id, "expiration_approaching")
            IN  [raised |-> "none", alerts |-> a4.alerts, returned |-> a4.returned]

------------------------------------------------------------------------------
(* config.py *)

DefaultCfg ==
    [PROFIT_THRESHOLD_LOW |-> Frac(50, 100), PROFIT_THRESHOLD_HIGH |-> Frac(80, 100),
     STRIKE_PROXIMITY_PCT |-> Frac(3, 100), LOW_PROFIT_DTE_THRESHOLD |-> 7]

------------------------------------------------------------------------------
(* The Store under the bot's commands *)

InitStore ==
    /\ leaps = EmptyTable
    /\ short_calls = EmptyTable
    /\ cost_basis_history = << >>
    /\ leaps_seq = 0
    /\ short_seq = 0
    /\ reply = NoReply

InitAlerts ==
    /\ alerts = << >>
    /\ now = 0
    /\ lastEval = [flip |-> FALSE, sid |-> 0, raised |-> "none", returned |-> << >>]

\* no scan made yet
NoScan == [kind |-> "none", raised |-> "none", close_cost |-> 0,
           candidates |-> << >>, returned |-> << >>]

InitEvalIdle ==
    /\ cfg = DefaultCfg
    /\ inp = Null
    /\ pc = "idle"
    /\ scan = NoScan

\* PMCCScheduler before its first job: nothing due, no cycle run yet
IdleThread ==
    [pc |-> "sleep", weekday |-> 0, tod |-> 0, outcome |-> "none",
     snapshot |-> {}, positions |-> << >>, queue |-> {}, done |-> << >>,
     triggered |-> << >>]

\* ConversationStateManager.__init__
InitChatIdle == conversations = [u \in {} |-> 0]

InitCycleIdle ==
    /\ thread = IdleThread
    /\ due = FALSE
    /\ running = 0
    /\ sent = << >>
    /\ notified = [id \in {} |-> 0]

AddLeaps == \E args \in AddLeapsArgs :
    cmd_add_leaps(args) /\ UNCHANGED <<alertVars, evalVars, cycleVars, chatVars>>

AddShort == \E args \in AddShortArgs :
    cmd_add_short(args) /\ UNCHANGED <<alertVars, evalVars, cycleVars, chatVars>>

Close == \E args \in CloseArgs, fault \in Faults :
    cmd_close(args, fault) /\ UNCHANGED <<alertVars, evalVars, cycleVars, chatVars>>

Clear == \E args \in ClearArgs :
    cmd_clear(args) /\ UNCHANGED <<now, lastEval, evalVars, cycleVars, chatVars>>

Init == InitStore /\ InitAlerts /\ InitEvalIdle /\ InitCycleIdle /\ InitChatIdle

NextStore == AddLeaps \/ AddShort \/ Close \/ Clear

SpecStore == Init /\ [][NextStore]_vars

------------------------------------------------------------------------------
(* The Evaluator over time: evaluations of the positions, the clock, and the *)
(* Store's acknowledge                                                       *)

PositionIds == {1, 2}
Instants == {0, 1800, 3600, SecondsPerDay}

Position(id, entry_price, strike) ==
    [id |-> id, entry_price |-> entry_price, strike |-> strike]
Quote(ask, last) == [ask |-> ask, last |-> last]

CycleAsks == {325, 600}
CycleUnderlyings == {Null, Some(Quote(0, 73000))}
CycleDtes == {30}

Evaluate ==
    \E sid \in PositionIds, ask \in CycleAsks, u \in CycleUnderlyings, dte \in CycleDtes :
        LET res == check_position(alerts, now, cfg, Position(sid, 650, 73000),
                                  Some(Quote(ask, 0)), u, dte)
        IN  /\ Len(res.alerts) <= MaxAlerts
            /\ alerts' = res.alerts
            /\ lastEval' = [flip |-> ~lastEval.flip, sid |-> sid,
                            raised |-> res.raised, returned |-> res.returned]
            /\ UNCHANGED <<now, storeVars, evalVars, cycleVars, chatVars>>

Advance ==
    \E t \in Instants :
        /\ t > now
        /\ now' = t
        /\ UNCHANGED <<alerts, lastEval, storeVars, evalVars, cycleVars, chatVars>>

Acknowledge ==
    \E alert_id \in 1..Len(alerts) :
        /\ alerts' = Alert_acknowledge(alerts, alert_id)
        /\ UNCHANGED <<now, lastEval, storeVars, evalVars, cycleVars, chatVars>>

Next == Evaluate \/ Advance \/ Acknowledge

Spec == Init /\ [][Next]_vars

------------------------------------------------------------------------------
(* One evaluation as a function of its inputs *)

Thresholds == {Frac(50, 100), Frac(80, 100)}
CfgSpace ==
    {[PROFIT_THRESHOLD_LOW |-> lo, PROFIT_THRESHOLD_HIGH |-> hi,
      STRIKE_PROXIMITY_PCT |-> Frac(3, 100), LOW_PROFIT_DTE_THRESHOLD |-> 7] :
        lo \in Thresholds, hi \in Thresholds}

EvalEntryPrices == {0, 650}
EvalStrikes == {0, 73000}
EvalQuotes == {Null} \cup {Some(Quote(a, l)) : a \in {-100, 0, 100, 130, 325, 600}, l \in {-100, 0, 130}}
EvalUnderlyings == {Null} \cup {Some(Quote(0, l)) : l \in {0, 73000, 75190, 75200}}
EvalDtes == {-1, 7, 8}

InputSpace ==
    {[position |-> Position(1, e, k), quote |-> q, underlying_quote |-> u, dte |-> d] :
        e \in EvalEntryPrices, k \in EvalStrikes, q \in EvalQuotes,
        u \in EvalUnderlyings, d \in EvalDtes}

InitEval ==
    /\ InitStore
    /\ InitAlerts
    /\ InitCycleIdle /\ InitChatIdle
    /\ cfg \in CfgSpace
    /\ inp \in InputSpace
    /\ pc = "ready"
    /\ scan = NoScan

EvalStep ==
    /\ pc = "ready"
    /\ LET res == check_position(alerts, now, cfg, inp.position, inp.quote,
                                 inp.underlying_quote, inp.dte)
       IN  /\ alerts' = res.alerts
           /\ lastEval' = [flip |-> ~lastEval.flip, sid |-> inp.position.id,
                           raised |-> res.raised, returned |-> res.returned]
    /\ pc' = "done"
    /\ UNCHANGED <<now, cfg, inp, scan, storeVars, cycleVars, chatVars>>

NextEval == EvalStep

SpecEval == InitEval /\ [][NextEval]_vars

------------------------------------------------------------------------------
(* main.py: PMCCScheduler.  One thread runs schedule.run_pending() in a loop, *)
(* the bot's command handlers run beside it.                                  *)

MARKET_OPEN_HOUR == 9
MARKET_OPEN_MINUTE == 30
MARKET_CLOSE_HOUR == 16
MARKET_CLOSE_MINUTE == 0

\* time(hour, minute) as seconds since midnight
TimeOfDay(hour, minute) == hour * 3600 + minute * 60

\* is_market_hours without the weekend test
is_market_hours_any_day(weekday, tod) ==
    /\ TimeOfDay(MARKET_OPEN_HOUR, MARKET_OPEN_MINUTE) <= tod
    /\ tod <= TimeOfDay(MARKET_CLOSE_HOUR, MARKET_CLOSE_MINUTE)

\* weekday 0 is Monday, 5 and 6 are Saturday and Sunday
is_market_hours(weekday, tod) ==
    IF weekday >= 5 THEN FALSE
    ELSE /\ TimeOfDay(MARKET_OPEN_HOUR, MARKET_OPEN_MINUTE) <= tod
         /\ tod <= TimeOfDay(MARKET_CLOSE_HOUR, MARKET_CLOSE_MINUTE)

\* a job started on every tick, whatever the thread is doing
RunsJobAlways(thread_pc) == TRUE

\* the scheduler thread reaches run_pending() only between jobs
RunsJob(thread_pc) == thread_pc = "sleep"

\* an exception of one position ending the loop and leaving check_all_positions
PositionErrorAborts(rest, error) == [queue |-> {}, outcome |-> "raised"]

\* except Exception: logger.error(...), and the for loop goes on
PositionError(rest, error) == [queue |-> rest, outcome |-> "running"]

\* the dict get_active returns for a row
PositionOf(sc, id) == Position(id, sc[id].entry_price, sc[id].strike)

AlertIds(list) == [i \in 1..Len(list) |-> list[i].id]

\* check_positions up to the return of get_active: the market-hours gate, then
\* the list of active positions
BeginCheck(weekday, tod) ==
    /\ RunsJob(thread.pc)
    /\ due
    /\ due' = FALSE
    /\ LET called == [thread EXCEPT !.pc = "sleep", !.weekday = weekday, !.tod = tod,
                                    !.snapshot = {}, !.positions = << >>,
                                    !.queue = {}, !.done = << >>, !.triggered = << >>]
           active_positions == ShortCall_get_active(leaps, short_calls)
       IN  IF ~is_market_hours(weekday, tod)
           THEN /\ thread' = [called EXCEPT !.outcome = "skipped"]
                /\ UNCHANGED <<running, sent>>
           ELSE IF active_positions = {}
           THEN /\ thread' = [called EXCEPT !.outcome = "returned"]
                /\ sent' = << >>
                /\ UNCHANGED running
           ELSE /\ thread' = [called EXCEPT
                                 !.pc = "cycle", !.outcome = "running",
                                 !.snapshot = active_positions,
                                 !.positions = [i \in active_positions |->
                                                   PositionOf(short_calls, i)],
                                 !.queue = active_positions]
                /\ running' = running + 1
                /\ UNCHANGED sent
    /\ UNCHANGED <<notified, storeVars, alertVars, evalVars, chatVars>>

\* one pass of the for loop: _check_position inside try / except
CheckOne(id, quote, underlying_quote, dte) ==
    /\ thread.pc = "cycle"
    /\ id \in thread.queue
    /\ LET res == check_position(alerts, now, cfg, thread.positions[id], quote,
                                 underlying_quote, dte)
           rest == thread.queue \ {id}
           after == IF res.raised = "none"
                    THEN [queue |-> rest, outcome |-> "running"]
                    ELSE PositionError(rest, res.raised)
       IN  /\ Len(res.alerts) <= MaxAlerts
           /\ alerts' = res.alerts
           /\ lastEval' = [flip |-> ~lastEval.flip, sid |-> id,
                           raised |-> res.raised, returned |-> res.returned]
           /\ thread' = [thread EXCEPT
                            !.queue = after.queue,
                            !.outcome = after.outcome,
                            !.done = Append(@, [id |-> id, raised |-> res.raised,
                                                returned |-> res.returned]),
                            !.triggered = @ \o res.returned]
    /\ UNCHANGED <<now, due, running, sent, notified, storeVars, evalVars, chatVars>>

\* the send_alert calls counted so far and one more for each id of the list
RECURSIVE SendAll(_, _)
SendAll(count, ids) ==
    IF ids = << >> THEN count
    ELSE LET id == Head(ids)
             one == IF id \in DOMAIN count THEN count[id] + 1 ELSE 1
         IN  SendAll([i \in DOMAIN count \cup {id} |-> IF i = id THEN one ELSE count[i]],
                     Tail(ids))

\* the return of check_all_positions and the rest of check_positions: one
\* send_alert per returned alert, or the except clause
EndCheck ==
    /\ thread.pc = "cycle"
    /\ thread.queue = {}
    /\ thread' = [thread EXCEPT
                     !.pc = "sleep",
                     !.outcome = IF @ = "raised" THEN "raised" ELSE "returned"]
    /\ sent' = IF thread.outcome = "raised" THEN << >> ELSE AlertIds(thread.triggered)
    /\ notified' = SendAll(notified, sent')
    /\ \A id \in DOMAIN notified' : notified'[id] <= MaxSends
    /\ running' = running - 1
    /\ UNCHANGED <<due, storeVars, alertVars, evalVars, chatVars>>

(* The cycle beside the /close command, on a store the commands can build: one *)
(* LEAPS, a short call under it, one with strike 0 under it, and one entered   *)
(* for a LEAPS id that does not exist.                                         *)

SeedLeaps == Insert(EmptyTable, 1, LeapsRow(10900, 2))
SeedShortCalls ==
    Insert(Insert(Insert(EmptyTable,
        1, ShortRow(1, 73000, 650, 2)),
        2, ShortRow(1, 0, 650, 2)),
        3, ShortRow(2, 73000, 650, 2))

\* datetime.now(self.eastern) as <<weekday, seconds since midnight>>: a Friday
\* around the opening and the closing time, and a Saturday at noon
ClockReadings == {<<4, 34199>>, <<4, 34200>>, <<4, 57600>>, <<4, 57601>>, <<5, 43200>>}
CycleExitPrices == {325}

InitCycle ==
    /\ leaps = SeedLeaps
    /\ short_calls = SeedShortCalls
    /\ cost_basis_history = << >>
    /\ leaps_seq = 1
    /\ short_seq = 3
    /\ reply = NoReply
    /\ InitAlerts
    /\ InitEvalIdle
    /\ InitCycleIdle /\ InitChatIdle

\* the interval of the check_positions job has elapsed
Tick ==
    /\ ~due
    /\ due' = TRUE
    /\ UNCHANGED <<thread, running, sent, notified, storeVars, alertVars, evalVars,
                   chatVars>>

RunPending == \E reading \in ClockReadings : BeginCheck(reading[1], reading[2])

CheckNext ==
    \E id \in thread.queue, ask \in CycleAsks, dte \in CycleDtes :
        CheckOne(id, Some(Quote(ask, 0)), Some(Quote(0, 73000)), dte)

CloseCommand ==
    \E id \in DOMAIN short_calls, x \in CycleExitPrices :
        cmd_close(<<Tok(id), Tok(x)>>, "none") /\ UNCHANGED <<alertVars, evalVars, cycleVars, chatVars>>

NextCycle == Tick \/ RunPending \/ CheckNext \/ EndCheck \/ CloseCommand

SpecCycle == InitCycle /\ [][NextCycle]_vars

------------------------------------------------------------------------------
(* tradier.py: the helpers the scans use.  A date is a day number, a strike and *)
(* a bid are in cents, a delta is in thousandths.                               *)

Option(symbol, option_type, strike, bid, greeks) ==
    [symbol |-> symbol, option_type |-> option_type, strike |-> strike, bid |-> bid,
     greeks |-> greeks]

Min(a, b) == IF a < b THEN a ELSE b

RECURSIVE Flatten(_)
Flatten(lists) == IF lists = << >> THEN << >> ELSE Head(lists) \o Flatten(Tail(lists))

\* (exp_date - today).days
calculate_days_to_expiration(expiration, today) == expiration - today

get_expirations_by_dte_range(all_expirations, today, min_dte, max_dte) ==
    SelectSeq(all_expirations,
              LAMBDA exp : LET dte == calculate_days_to_expiration(exp, today)
                           IN  min_dte <= dte /\ dte <= max_dte)

\* a strike filter that lets every strike pass
StrikeInRangeAny(strike, min_strike, max_strike) == TRUE

\* min_strike and max_strike are None (Null) or a bound
StrikeInRange(strike, min_strike, max_strike) ==
    /\ min_strike # Null => strike >= Get(min_strike)
    /\ max_strike # Null => strike <= Get(max_strike)

\* the options without greeks are dropped, the others compared by abs(delta)
DeltaInRange(greeks, min_delta, max_delta) ==
    IF min_delta = Null /\ max_delta = Null THEN TRUE
    ELSE /\ greeks # Null
         /\ min_delta # Null => Abs(Get(greeks)) >= Get(min_delta)
         /\ max_delta # Null => Abs(Get(greeks)) <= Get(max_delta)

find_options_by_criteria(chain, option_type, min_strike, max_strike, min_delta, max_delta) ==
    SelectSeq(chain, LAMBDA opt : /\ opt.option_type = option_type
                                  /\ StrikeInRange(opt.strike, min_strike, max_strike)
                                  /\ DeltaInRange(opt.greeks, min_delta, max_delta))

RECURSIVE GCD(_, _)
GCD(a, b) == IF b = 0 THEN a ELSE GCD(b, a % b)

\* the same number in lowest terms, which keeps the products of a comparison small
Reduced(n, d) == LET g == GCD(Abs(n), Abs(d)) IN Frac(n \div g, d \div g)

\* the return without the guard on dte
annualized_return_any_dte(premium, cost_basis, dte) ==
    IF cost_basis.num <= 0
    THEN Frac(0, 1)
    ELSE Reduced(premium * cost_basis.den * 365 * 100, cost_basis.num * dte)

\* premium / cost_basis * (365 / dte) * 100, or 0.0; cost_basis is a fraction
calculate_annualized_return(premium, cost_basis, dte) ==
    IF cost_basis.num <= 0 \/ dte <= 0
    THEN Frac(0, 1)
    ELSE Reduced(premium * cost_basis.den * 365 * 100, cost_basis.num * dte)

------------------------------------------------------------------------------
(* config.py: the scanner's grid *)

TARGET_DELTA_MIN == 200
TARGET_DELTA_MAX == 300
TARGET_DTE_MIN == 30
TARGET_DTE_MAX == 45
ROLL_DTE_OPTIONS == <<30, 45, 60>>
ROLL_STRIKE_OFFSETS == <<500, 1000, 1500, 2000>>
ROLL_MAX_DELTA == 300

------------------------------------------------------------------------------
(* scanner.py: OptionScanner.  `gateway` is what the Market Data Gateway answers *)
(* during the scan: the option's quote, the expiration list and the chains.      *)

\* the roll key without its second component
RollKeyLessCreditOnly(a, b) == a.roll_credit > b.roll_credit

\* key=lambda x: (-x['roll_credit'], x['delta'])
RollKeyLess(a, b) ==
    \/ a.roll_credit > b.roll_credit
    \/ a.roll_credit = b.roll_credit /\ a.delta < b.delta

\* the new-call key ascending in the return
NewCallKeyLessAscending(a, b) ==
    \/ FracLt(a.annualized_return, b.annualized_return)
    \/ FracEq(a.annualized_return, b.annualized_return) /\ a.delta < b.delta

\* key=lambda x: (-x['annualized_return'], x['delta'])
NewCallKeyLess(a, b) ==
    \/ FracLt(b.annualized_return, a.annualized_return)
    \/ FracEq(a.annualized_return, b.annualized_return) /\ a.delta < b.delta

KeyLess(kind, a, b) == IF kind = "roll" THEN RollKeyLess(a, b) ELSE NewCallKeyLess(a, b)

\* list.sort(key=...): a stable sort
RECURSIVE InsertKeyed(_, _, _)
InsertKeyed(kind, sorted, x) ==
    IF sorted = << >> THEN <<x>>
    ELSE IF KeyLess(kind, x, Head(sorted)) THEN <<x>> \o sorted
    ELSE <<Head(sorted)>> \o InsertKeyed(kind, Tail(sorted), x)

RECURSIVE SortKeyed(_, _)
SortKeyed(kind, list) ==
    IF list = << >> THEN << >>
    ELSE InsertKeyed(kind, SortKeyed(kind, SubSeq(list, 1, Len(list) - 1)), list[Len(list)])

\* candidates[:top_n] for top_n >= 0
TopOf(list, top_n) == SubSeq(list, 1, Min(top_n, Len(list)))

\* a closing cost of 0 whatever the quote
CloseCostZero(current_quote) == 0

\* current_quote.get('ask', 0) if current_quote else 0
CloseCost(current_quote) == IF current_quote = Null THEN 0 ELSE Get(current_quote).ask

\* if bid <= 0: continue
WithBid(options) == SelectSeq(options, LAMBDA option : option.bid > 0)

RollCandidate(option, expiration, dte, close_cost, quantity) ==
    [strike |-> option.strike, expiration |-> expiration, dte |-> dte, bid |-> option.bid,
     delta |-> IF option.greeks = Null THEN 0 ELSE Abs(Get(option.greeks)),
     roll_credit |-> option.bid - close_cost, close_cost |-> close_cost,
     net_credit |-> (option.bid - close_cost) * quantity * 100,
     symbol |-> option.symbol]

\* one cell of the roll grid: the chain of `expiration` around one strike
RollCell(gateway, position, expiration, strike_offset, close_cost) ==
    LET new_strike == position.strike + strike_offset
        options == find_options_by_criteria(gateway.chain[expiration], "call",
                       Some(new_strike - 50), Some(new_strike + 50),
                       Null, Some(ROLL_MAX_DELTA))
        kept == WithBid(options)
        dte == calculate_days_to_expiration(expiration, gateway.today)
    IN  [i \in 1..Len(kept) |->
            RollCandidate(kept[i], expiration, dte, close_cost, position.quantity)]

RollCandidates(gateway, position) ==
    LET close_cost == CloseCost(gateway.current_quote)
        PerExpiration(expiration) ==
            Flatten([k \in 1..Len(ROLL_STRIKE_OFFSETS) |->
                        RollCell(gateway, position, expiration, ROLL_STRIKE_OFFSETS[k],
                                 close_cost)])
        PerTarget(dte_target) ==
            LET expirations == get_expirations_by_dte_range(gateway.expirations,
                                   gateway.today, dte_target - 5, dte_target + 5)
                first2 == SubSeq(expirations, 1, Min(2, Len(expirations)))
            IN  Flatten([e \in 1..Len(first2) |-> PerExpiration(first2[e])])
    IN  Flatten([t \in 1..Len(ROLL_DTE_OPTIONS) |-> PerTarget(ROLL_DTE_OPTIONS[t])])

find_roll_candidates(lp, sc, gateway, short_call_id, top_n) ==
    LET found == ShortCall_get_by_id(lp, sc, short_call_id)
    IN  IF found = Null
        THEN [kind |-> "roll", raised |-> "none", close_cost |-> 0,
              candidates |-> << >>, returned |-> << >>]
        ELSE LET candidates == RollCandidates(gateway, Get(found))
             IN  [kind |-> "roll", raised |-> "none",
                  close_cost |-> CloseCost(gateway.current_quote),
                  candidates |-> candidates,
                  returned |-> TopOf(SortKeyed("roll", candidates), top_n)]

NewCallCandidate(option, expiration, dte, quantity, adjusted_cost) ==
    [strike |-> option.strike, expiration |-> expiration, dte |-> dte, bid |-> option.bid,
     delta |-> IF option.greeks = Null THEN 0 ELSE Abs(Get(option.greeks)),
     premium |-> option.bid * quantity * 100,
     annualized_return |-> calculate_annualized_return(option.bid * quantity,
                                                       adjusted_cost, dte),
     symbol |-> option.symbol]

NewCallCandidates(gateway, leaps_strike, quantity, adjusted_cost) ==
    LET expirations == get_expirations_by_dte_range(gateway.expirations, gateway.today,
                                                    TARGET_DTE_MIN, TARGET_DTE_MAX)
        first3 == SubSeq(expirations, 1, Min(3, Len(expirations)))
        PerExpiration(expiration) ==
            LET options == find_options_by_criteria(gateway.chain[expiration], "call",
                               Some(leaps_strike + 100), Null,
                               Some(TARGET_DELTA_MIN), Some(TARGET_DELTA_MAX))
                kept == WithBid(options)
                dte == calculate_days_to_expiration(expiration, gateway.today)
            IN  [i \in 1..Len(kept) |->
                    NewCallCandidate(kept[i], expiration, dte, quantity, adjusted_cost)]
    IN  Flatten([e \in 1..Len(first3) |-> PerExpiration(first3[e])])

\* leaps_strike is the strike column of the LEAPS row, which the tables of this
\* model do not carry
find_new_call_candidates(lp, hist, gateway, leaps_id, leaps_strike, top_n) ==
    LET found == LeapsPosition_get_by_id(lp, leaps_id)
        nothing == [kind |-> "new_call", raised |-> "none", close_cost |-> 0,
                    candidates |-> << >>, returned |-> << >>]
    IN  IF found = Null THEN nothing
        ELSE LET basis == get_adjusted_cost_basis(lp, hist, leaps_id)
             IN  IF basis.raised # "none"
                 THEN [nothing EXCEPT !.raised = basis.raised]
                 ELSE LET candidates == NewCallCandidates(gateway, leaps_strike,
                                            Get(found).quantity, basis.value)
                      IN  [nothing EXCEPT
                              !.candidates = candidates,
                              !.returned = TopOf(SortKeyed("new_call", candidates), top_n)]

(* The scans as functions of the store and of the Gateway's answers *)

oA == Option("A", "call", 73500, 500, Some(300))
oB == Option("B", "call", 73550, 500, Some(100))
oC == Option("C", "call", 74000, 200, Some(-250))
oD == Option("D", "call", 73551, 900, Some(200))
oE == Option("E", "call", 75000, 0, Some(200))
oF == Option("F", "put", 73500, 900, Some(-200))
oG == Option("G", "call", 74500, 900, Null)
oH == Option("H", "call", 74000, 300, Some(301))
oI == Option("I", "call", 73000, 500, Some(250))
oJ == Option("J", "call", 62050, 5000, Some(250))

ScanChains == {<< >>, <<oA>>, <<oA, oB, oC>>, <<oE, oF, oG>>, <<oD, oH, oI, oJ>>,
               <<oA, oB, oC, oD, oE, oF, oG, oH, oI, oJ>>}
ScanFarChains == {<< >>, <<oA, oC>>}
ScanDays == {24, 25, 30, 35, 36, 45, 51, 60}
ScanExpirationLists == {<< >>, <<30>>, <<25, 30, 35>>, <<24, 36, 51>>, <<30, 45, 60>>,
                        <<35, 25, 45>>, <<30, 35, 36, 45>>}
ScanQuotes == {Null, Some(Quote(0, 0)), Some(Quote(325, 0)), Some(Quote(700, 0))}
ScanIds == {1, 2}
TopNs == {1, 3, 5}
ScanLeapsStrikes == {62000}

Gateway(current_quote, expirations, near, far) ==
    [today |-> 0, current_quote |-> current_quote, expirations |-> expirations,
     chain |-> [d \in ScanDays |-> IF d <= 30 THEN near ELSE far]]

\* position['expiration'] of the short call being rolled, which the tables of
\* this model do not carry: a week from today, and 70 days from today
ScanCurrentExpirations == {7, 70}

ScanInputSpace ==
    {[id |-> id, top_n |-> n, leaps_strike |-> k, current_expiration |-> x,
      gateway |-> Gateway(q, e, c1, c2)] :
        id \in ScanIds, n \in TopNs, k \in ScanLeapsStrikes, x \in ScanCurrentExpirations,
        q \in ScanQuotes, e \in ScanExpirationLists, c1 \in ScanChains,
        c2 \in ScanFarChains}

\* The ledger after no close, and after the close at exit_price of a short call
\* of 2 contracts sold at entry_price under LEAPS 1 (which ShortCall.close
\* completes only for a LEAPS of non-zero quantity).
ScanCloses == {<<650, 325>>, <<10900, 0>>, <<16350, 0>>}
ScanLedgers(lp) ==
    {<< >>} \cup
    {ShortCall_close(lp, Insert(EmptyTable, 1, ShortRow(1, 73000, c[1], 2)), << >>,
                     1, c[2], "none").db.cost_basis_history :
        c \in {x \in ScanCloses : lp[1].quantity # 0}}

ReturnPremiums == {1000}
ReturnDtes == {-1, 0, 30}

InitScan ==
    /\ leaps \in {Insert(EmptyTable, 1, LeapsRow(p, q)) :
                     p \in LeapsPrices, q \in LeapsQuantities}
    /\ short_calls = Insert(EmptyTable, 1, ShortRow(1, 73000, 650, 2))
    /\ cost_basis_history \in ScanLedgers(leaps)
    /\ leaps_seq = 1
    /\ short_seq = 1
    /\ reply = NoReply
    /\ InitAlerts
    /\ InitCycleIdle /\ InitChatIdle
    /\ cfg = DefaultCfg
    /\ inp \in ScanInputSpace
    /\ pc = "ready"
    /\ scan = NoScan

\* /roll <short_call_id>
RollScan ==
    /\ pc = "ready"
    /\ scan' = find_roll_candidates(leaps, short_calls, inp.gateway, inp.id, inp.top_n)
    /\ pc' = "done"
    /\ UNCHANGED <<cfg, inp, storeVars, alertVars, cycleVars, chatVars>>

\* /newcall <leaps_id>
NewCallScan ==
    /\ pc = "ready"
    /\ scan' = find_new_call_candidates(leaps, cost_basis_history, inp.gateway, inp.id,
                                        inp.leaps_strike, inp.top_n)
    /\ pc' = "done"
    /\ UNCHANGED <<cfg, inp, storeVars, alertVars, cycleVars, chatVars>>

\* TradierAPI.calculate_annualized_return on the adjusted basis of LEAPS 1
AnnualizedReturn ==
    /\ pc = "ready"
    /\ get_adjusted_cost_basis(leaps, cost_basis_history, 1).raised = "none"
    /\ \E premium \in ReturnPremiums, dte \in ReturnDtes :
          LET cost_basis == get_adjusted_cost_basis(leaps, cost_basis_history, 1).value
          IN  scan' = [NoScan EXCEPT
                          !.kind = "annualized_return",
                          !.returned = <<[premium |-> premium, cost_basis |-> cost_basis,
                                          dte |-> dte,
                                          annualized_return |->
                                              calculate_annualized_return(premium,
                                                                          cost_basis, dte)]>>]
    /\ pc' = "done"
    /\ UNCHANGED <<cfg, inp, storeVars, alertVars, cycleVars, chatVars>>

NextScan == RollScan \/ NewCallScan \/ AnnualizedReturn

SpecScan == InitScan /\ [][NextScan]_vars

------------------------------------------------------------------------------
(* alerts.py: get_position_status.  A quote is a dict: a function of its keys. *)

\* d.get(key, default)
DictGet(d, key, default) == IF key \in DOMAIN d THEN d[key] ELSE default

\* return {}
StatusNotFound == [k \in {} |-> 0]

\* a status of price 0 in place of the marker
NoQuotePriced == [current_price |-> 0, profit_dollars |-> 0]

\* return {'error': 'No quote available'}
NoQuoteAvailable == [error |-> "No quote available"]

get_position_status(lp, sc, short_call_id, quote, underlying_quote, dte) ==
    LET found == ShortCall_get_by_id(lp, sc, short_call_id)
    IN  IF found = Null THEN StatusNotFound
        ELSE IF quote = Null \/ quote = Some(StatusNotFound) THEN NoQuoteAvailable
        ELSE
        LET position == Get(found)
            current_price == DictGet(Get(quote), "ask", DictGet(Get(quote), "last", 0))
            entry_price == position.entry_price
        IN  [position |-> position,
             current_price |-> current_price,
             profit_pct |-> IF entry_price > 0
                            THEN Frac(entry_price - current_price, entry_price)
                            ELSE Frac(0, 1),
             profit_dollars |-> (entry_price - current_price) * position.quantity * 100,
             dte |-> dte,
             underlying_price |-> IF underlying_quote = Null
                                     \/ underlying_quote = Some(StatusNotFound)
                                  THEN 0
                                  ELSE DictGet(Get(underlying_quote), "last", 0),
             option_symbol |-> [strike |-> position.strike]]

------------------------------------------------------------------------------
(* The bot's commands, the status query and the Store's alert operations on a *)
(* store that holds positions                                                  *)

StatusIds == {1, 3, 4}
StatusQuotes == {Null, Some(Quote(325, 300)), Some(Quote(0, 300)), Some([last |-> 300])}
StatusUnderlyings == {Null, Some(Quote(0, 73000))}
StatusDtes == {30}

\* get_position_status(short_call_id), as /positions and the daily summary call it
Status ==
    \E id \in StatusIds, quote \in StatusQuotes, u \in StatusUnderlyings, dte \in StatusDtes :
        /\ reply' = [cmd |-> "status", id |-> id, quote |-> quote,
                     status |-> get_position_status(leaps, short_calls, id, quote, u, dte)]
        /\ UNCHANGED <<leaps, short_calls, cost_basis_history, leaps_seq, short_seq>>
        /\ UNCHANGED <<alertVars, evalVars, cycleVars, chatVars>>

BotAlertTypes == {"profit_50"}

\* Alert.add(short_call_id, alert_type, message); reply records the call
AlertAdd ==
    \E short_call_id \in {1}, alert_type \in BotAlertTypes :
        /\ Len(alerts) < MaxAlerts
        /\ alerts' = Alert_add(alerts, now, short_call_id, alert_type)
        /\ reply' = [cmd |-> "alert_add", id |-> Len(alerts) + 1]
        /\ UNCHANGED <<leaps, short_calls, cost_basis_history, leaps_seq, short_seq>>
        /\ UNCHANGED <<now, lastEval, evalVars, cycleVars, chatVars>>

\* Alert.acknowledge(alert_id), for ids with and without a row; reply records
\* the call
AcknowledgeAny ==
    \E alert_id \in 1..(MaxAlerts + 1) :
        /\ alerts' = Alert_acknowledge(alerts, alert_id)
        /\ reply' = [cmd |-> "acknowledge", id |-> alert_id]
        /\ UNCHANGED <<leaps, short_calls, cost_basis_history, leaps_seq, short_seq>>
        /\ UNCHANGED <<now, lastEval, evalVars, cycleVars, chatVars>>

BotAddLeapsArgs ==
    {<< >>, <<Word, Tok(62000), Word, Word, Tok(2)>>,
     <<Word, Tok(62000), Word, Tok(10900), Tok(2)>>}

BotAddLeaps == \E args \in BotAddLeapsArgs :
    cmd_add_leaps(args) /\ UNCHANGED <<alertVars, evalVars, cycleVars, chatVars>>

BotCloseArgs ==
    {<< >>, <<Tok(1)>>, <<Word, Tok(325)>>, <<Tok(1), Word>>, <<NanTok, Tok(325)>>,
     <<Tok(1), NanTok>>, <<Tok(1), Tok(325)>>, <<Tok(4), Tok(325)>>}

BotClose == \E args \in BotCloseArgs :
    cmd_close(args, "none") /\ UNCHANGED <<alertVars, evalVars, cycleVars, chatVars>>

\* /roll <short_call_id>; the Gateway answers as BotGateway
RollArgs == {<< >>, <<Word>>, <<Tok(1)>>, <<Tok(4)>>}
BotGateway == Gateway(Some(Quote(325, 0)), <<30, 45, 60>>, <<oA, oB, oC>>, <<oA, oC>>)

cmd_roll(args, gateway) ==
    /\ IF Len(args) = 0
       THEN reply' = [cmd |-> "roll", outcome |-> "usage", error |-> "none"]
       ELSE IF ~int_accepts(args[1])
       THEN reply' = [cmd |-> "roll", outcome |-> "invalid", error |-> "none"]
       ELSE reply' = [cmd |-> "roll", outcome |-> "ok", error |-> "none",
                      candidates |-> find_roll_candidates(leaps, short_calls, gateway,
                                                          args[1].val, 3).returned]
    /\ UNCHANGED <<leaps, short_calls, cost_basis_history, leaps_seq, short_seq>>

Roll == \E args \in RollArgs :
    cmd_roll(args, BotGateway) /\ UNCHANGED <<alertVars, evalVars, cycleVars, chatVars>>

NextBot ==
    Status \/ BotAddLeaps \/ BotClose \/ Roll \/ Clear \/ AlertAdd \/ AcknowledgeAny

SpecBot == InitCycle /\ [][NextBot]_vars

------------------------------------------------------------------------------
(* conversational/conversation_state.py: ConversationStateManager.  A dict is a *)
(* function of its keys; a time is datetime.now() in seconds.                   *)

NoParams == [k \in {} |-> 0]

\* REQUIRED_PARAMS.get(intent, [])
REQUIRED_PARAMS(intent) ==
    IF intent = "add_leaps" THEN <<"symbol", "strike", "expiration", "price", "quantity">>
    ELSE IF intent = "add_short"
    THEN <<"leaps_id", "symbol", "strike", "expiration", "price", "quantity">>
    ELSE IF intent = "close" THEN <<"short_call_id", "exit_price">>
    ELSE IF intent = "roll" THEN <<"short_call_id">>
    ELSE IF intent = "newcall" THEN <<"leaps_id">>
    ELSE << >>

timeout_minutes == 5

\* d.update(e)
DictUpdate(d, e) ==
    [k \in DOMAIN d \cup DOMAIN e |-> IF k \in DOMAIN e THEN e[k] ELSE d[k]]

\* del d[key]
DictDel(d, key) == [k \in DOMAIN d \ {key} |-> d[k]]

start_conversation(convs, t, user_id, intent) ==
    [u \in DOMAIN convs \cup {user_id} |->
        IF u = user_id
        THEN [intent |-> intent, collected_params |-> NoParams,
              missing_params |-> REQUIRED_PARAMS(intent), last_updated |-> t,
              turn_count |-> 0]
        ELSE convs[u]]

\* the loop that removes nothing from the missing list
StillMissingAll(missing_params, params) == missing_params

\* for key in params.keys(): if key in missing_params: missing_params.remove(key)
StillMissing(missing_params, params) ==
    SelectSeq(missing_params, LAMBDA key : key \notin DOMAIN params)

update_params(convs, t, user_id, params) ==
    IF user_id \notin DOMAIN convs THEN convs
    ELSE [convs EXCEPT ![user_id] =
            [@ EXCEPT !.collected_params = DictUpdate(@, params),
                      !.missing_params = StillMissing(@, params),
                      !.last_updated = t,
                      !.turn_count = @ + 1]]

get_missing_params(convs, user_id) ==
    IF user_id \notin DOMAIN convs THEN << >> ELSE convs[user_id].missing_params

get_collected_params(convs, user_id) ==
    IF user_id \notin DOMAIN convs THEN NoParams ELSE convs[user_id].collected_params

get_intent(convs, user_id) ==
    IF user_id \notin DOMAIN convs THEN Null ELSE Some(convs[user_id].intent)

clear_conversation(convs, user_id) ==
    IF user_id \in DOMAIN convs THEN DictDel(convs, user_id) ELSE convs

\* a conversation that never times out
TimedOutNever(elapsed) == FALSE

\* elapsed > timedelta(minutes=self.timeout_minutes)
TimedOut(elapsed) == elapsed > timeout_minutes * 60

\* is_active at time t: what it returns and the conversations afterwards
is_active(convs, t, user_id) ==
    IF user_id \notin DOMAIN convs
    THEN [result |-> FALSE, conversations |-> convs]
    ELSE IF TimedOut(t - convs[user_id].last_updated)
    THEN [result |-> FALSE, conversations |-> clear_conversation(convs, user_id)]
    ELSE [result |-> TRUE, conversations |-> convs]

is_complete(convs, user_id) ==
    IF user_id \notin DOMAIN convs THEN FALSE
    ELSE Len(convs[user_id].missing_params) = 0

------------------------------------------------------------------------------
(* The conversations of two users over time.  reply records the last call of *)
(* the manager and what it returned.                                          *)

MaxTurns == 2
ChatUsers == {1, 2}
ChatIntents == {"close", "roll", "positions"}
ChatParams == {NoParams, [short_call_id |-> 5], [exit_price |-> 325],
               [short_call_id |-> 5, exit_price |-> 325]}
ChatInstants == {0, 300, 301}

ChatUnchanged ==
    UNCHANGED <<leaps, short_calls, cost_basis_history, leaps_seq, short_seq,
                alerts, lastEval, evalVars, cycleVars>>

StartConversation ==
    \E user_id \in ChatUsers, intent \in ChatIntents :
        /\ conversations' = start_conversation(conversations, now, user_id, intent)
        /\ reply' = [cmd |-> "start_conversation", user_id |-> user_id, intent |-> intent]
        /\ UNCHANGED now
        /\ ChatUnchanged

UpdateParams ==
    \E user_id \in ChatUsers, params \in ChatParams :
        /\ user_id \in DOMAIN conversations => conversations[user_id].turn_count < MaxTurns
        /\ conversations' = update_params(conversations, now, user_id, params)
        /\ reply' = [cmd |-> "update_params", user_id |-> user_id, params |-> params]
        /\ UNCHANGED now
        /\ ChatUnchanged

IsActive ==
    \E user_id \in ChatUsers :
        LET res == is_active(conversations, now, user_id)
        IN  /\ conversations' = res.conversations
            /\ reply' = [cmd |-> "is_active", user_id |-> user_id, result |-> res.result]
            /\ UNCHANGED now
            /\ ChatUnchanged

ClearConversation ==
    \E user_id \in ChatUsers :
        /\ conversations' = clear_conversation(conversations, user_id)
        /\ reply' = [cmd |-> "clear_conversation", user_id |-> user_id]
        /\ UNCHANGED now
        /\ ChatUnchanged

\* time passes between two calls
Elapse ==
    \E t \in ChatInstants :
        /\ t > now
        /\ now' = t
        /\ UNCHANGED <<reply, conversations>>
        /\ ChatUnchanged

NextChat == StartConversation \/ UpdateParams \/ IsActive \/ ClearConversation \/ Elapse

SpecChat == Init /\ [][NextChat]_vars

------------------------------------------------------------------------------
(* Properties of alert deduplication (under Spec) *)

IsEvaluation == lastEval'.flip # lastEval.flip
ReturnedTypes(ev) == {ev.returned[i].alert_type : i \in 1..Len(ev.returned)}
Unacked(store, sid, ty) ==
    {i \in 1..Len(store) : /\ store[i].short_call_id = sid
                           /\ store[i].alert_type = ty
                           /\ store[i].acknowledged = 0}
StoredInStep(sid, ty) ==
    {j \in (Len(alerts) + 1)..Len(alerts') :
        alerts'[j].short_call_id = sid /\ alerts'[j].alert_type = ty}

DedupStep ==
    \A sid \in PositionIds, ty \in AlertTypes :
        LET young == {i \in Unacked(alerts, sid, ty) :
                         /\ now - alerts[i].triggered_at >= 0
                         /\ now - alerts[i].triggered_at < 3600}
        IN  (/\ IsEvaluation
             /\ lastEval'.sid = sid
             /\ ty \in ReturnedTypes(lastEval')
             /\ young # {})
            => /\ StoredInStep(sid, ty) = {}
               /\ \A k \in 1..Len(lastEval'.returned) :
                     lastEval'.returned[k].alert_type = ty
                        => lastEval'.returned[k].id \in young

OneAlertPerWindow ==
    \A i, j \in 1..Len(alerts) :
        (/\ i < j
         /\ alerts[i].short_call_id = alerts[j].short_call_id
         /\ alerts[i].alert_type = alerts[j].alert_type
         /\ alerts[i].acknowledged = 0
         /\ alerts[j].acknowledged = 0)
        => alerts[j].triggered_at - alerts[i].triggered_at >= 3600

\* C1: a trigger for a (short_call_id, alert_type) pair that has a stored
\* unacknowledged alert younger than 3600 seconds stores nothing and returns that
\* alert, so no two unacknowledged alerts of one pair lie within 3600 seconds.
C1_DedupWithinWindow == []OneAlertPerWindow /\ [][DedupStep]_vars

\* An evaluation has just returned an alert stored 1800 seconds earlier.
C1_Witness ==
    \E k \in 1..Len(lastEval.returned) :
        /\ lastEval.returned[k].triggered_at = now - 1800
        /\ Cardinality(Unacked(alerts, lastEval.sid, lastEval.returned[k].alert_type)) = 1

\* C2: a trigger for a pair whose stored unacknowledged alerts are all at least
\* 3600 seconds old (a day or more included) stores a new alert for the pair.
C2_NewAlertAfterWindow ==
    [][\A sid \in PositionIds, ty \in AlertTypes :
          (/\ IsEvaluation
           /\ lastEval'.sid = sid
           /\ ty \in ReturnedTypes(lastEval')
           /\ \A i \in Unacked(alerts, sid, ty) : now - alerts[i].triggered_at >= 3600)
          => StoredInStep(sid, ty) # {}]_vars

------------------------------------------------------------------------------
(* Properties of the Store (under SpecStore) *)

RowsOf(hist, short_call_id) ==
    {i \in 1..Len(hist) : hist[i].short_call_id = short_call_id}

IsCloseCall == reply'.cmd = "close" /\ reply'.outcome \in {"ok", "error"}

\* C3: once a short call is closed, its exit_price and profit never change.
C3_ClosedIsImmutable ==
    [][\A id \in DOMAIN short_calls :
          (short_calls[id].status = "closed" /\ id \in DOMAIN short_calls')
          => /\ short_calls'[id].status = "closed"
             /\ short_calls'[id].exit_price = short_calls[id].exit_price
             /\ short_calls'[id].profit = short_calls[id].profit]_vars

\* C4: the ledger holds exactly one row for a closed short call and none for an
\* active one.
C4_OneAdjustmentPerClose ==
    \A id \in DOMAIN short_calls :
        Cardinality(RowsOf(cost_basis_history, id)) =
            IF short_calls[id].status = "closed" THEN 1 ELSE 0

\* The ledger is append-only under add and close.
LedgerAppendOnly ==
    [][reply'.cmd # "clear" =>
          /\ Len(cost_basis_history') >= Len(cost_basis_history)
          /\ SubSeq(cost_basis_history', 1, Len(cost_basis_history)) = cost_basis_history]_vars

LedgerSum(leaps_id) ==
    LET S == {i \in 1..Len(cost_basis_history) :
                 cost_basis_history[i].leaps_id = leaps_id}
        RECURSIVE Total(_)
        Total(T) == IF T = {} THEN 0
                    ELSE LET i == CHOOSE x \in T : TRUE
                         IN  cost_basis_history[i].adjustment_amount + Total(T \ {i})
    IN  Total(S)

CostBasisOf(id) ==
    LET basis == get_adjusted_cost_basis(leaps, cost_basis_history, id)
    IN  /\ basis.raised = "none"
        /\ basis.value.num * leaps[id].quantity =
              (leaps[id].entry_price * leaps[id].quantity - LedgerSum(id)) * basis.value.den
        /\ (\A s \in DOMAIN short_calls :
               short_calls[s].leaps_id = id => short_calls[s].status = "active")
           => basis.value.num = leaps[id].entry_price * basis.value.den

\* C5: for every existing LEAPS the adjusted cost basis is
\* (entry_price * quantity - sum of its ledger rows' adjustment_amount) / quantity,
\* and it is entry_price while none of its short calls is closed.
C5_CostBasisInvariant == \A id \in DOMAIN leaps : CostBasisOf(id)

\* The same for the LEAPS whose quantity is not zero.
CostBasisNonZeroQuantity ==
    \A id \in DOMAIN leaps : leaps[id].quantity # 0 => CostBasisOf(id)

ClosedAs(id, exit_price, profit) ==
    /\ id \in DOMAIN short_calls'
    /\ short_calls'[id].status = "closed"
    /\ short_calls'[id].exit_price = Some(exit_price)
    /\ short_calls'[id].profit = Some(profit)
    /\ Len(cost_basis_history') = Len(cost_basis_history) + 1
    /\ SubSeq(cost_basis_history', 1, Len(cost_basis_history)) = cost_basis_history
    /\ LET row == cost_basis_history'[Len(cost_basis_history')]
       IN  /\ row.short_call_id = id
           /\ row.leaps_id = short_calls[id].leaps_id
           /\ row.adjustment_amount * 100 = profit

CloseStores ==
    (/\ IsCloseCall
     /\ reply'.fault = "none"
     /\ ShortCall_get_by_id(leaps, short_calls, reply'.id) # Null)
    => LET sc == short_calls[reply'.id]
           profit == (sc.entry_price - reply'.exit_price) * sc.quantity * 100
       IN  /\ reply'.outcome = "ok"
           /\ reply'.profit = Some(profit)
           /\ ClosedAs(reply'.id, reply'.exit_price, profit)

\* C6: close(id, exit_price) on an existing short call returns and stores
\* profit = (entry_price - exit_price) * quantity * 100, sets status 'closed' and
\* exit_price, and appends a ledger row with adjustment_amount = profit / 100.
C6_CloseComputesProfit == [][CloseStores]_vars

\* The same for the short calls of a LEAPS whose quantity is not zero.
CloseStoresNonZeroQuantity ==
    [][(ShortCall_get_by_id(leaps, short_calls, reply'.id) # Null
          => leaps[short_calls[reply'.id].leaps_id].quantity # 0)
       => CloseStores]_vars

\* The two closes of the tests: 6.50 -> 3.25 x 2 is $650; 6.50 -> 0.00 x 2 on a
\* LEAPS of 109.00 x 2 is $1300 and leaves a basis of 102.50.
CloseExamples ==
    (reply.cmd = "close" /\ reply.outcome = "ok" /\ Len(cost_basis_history) = 1)
    => /\ reply.exit_price = 325 => reply.profit = Some(65000)
       /\ reply.exit_price = 0 =>
             /\ reply.profit = Some(130000)
             /\ FracEq(Get(reply.basis), Frac(10250, 1))

\* C7: close with an id that has no short-call record raises ValueError, which
\* /close reports, and changes no short call and no ledger row.
C7_CloseNonexistent ==
    [][(IsCloseCall /\ reply'.id \notin DOMAIN short_calls)
       => /\ reply'.outcome = "error"
          /\ reply'.error = "ValueError"
          /\ short_calls' = short_calls
          /\ cost_basis_history' = cost_basis_history]_vars

\* /close 2 <price> has just been refused while short call 1 exists.
C7_Witness ==
    /\ reply.cmd = "close"
    /\ reply.error = "ValueError"
    /\ reply.id \notin DOMAIN short_calls
    /\ DOMAIN short_calls # {}

ClosedIffAdjusted ==
    \A id \in DOMAIN short_calls :
        short_calls[id].status = "closed" <=> RowsOf(cost_basis_history, id) # {}

FailedCloseChangesNothing ==
    (IsCloseCall /\ reply'.error # "none")
    => /\ reply'.outcome = "error"
       /\ short_calls' = short_calls
       /\ cost_basis_history' = cost_basis_history

\* C8: a close that fails after its status update was issued propagates the
\* failure and leaves the tables as they were: a short call is closed exactly
\* when the ledger holds an adjustment for it.
C8_CloseIsAtomic == []ClosedIffAdjusted /\ [][FailedCloseChangesNothing]_vars

\* A close of an existing short call has just failed after its UPDATE.
C8_Witness ==
    /\ reply.cmd = "close"
    /\ reply.outcome = "error"
    /\ \/ reply.error = "ZeroDivisionError"
       \/ reply.error = "DatabaseError" /\ reply.fault \in {"insert", "commit"}
    /\ reply.id \in DOMAIN short_calls
    /\ short_calls[reply.id].status = "active"
    /\ RowsOf(cost_basis_history, reply.id) = {}

------------------------------------------------------------------------------
(* Properties of one evaluation (under SpecEval) *)

StoredTypes == {alerts[i].alert_type : i \in 1..Len(alerts)}

\* C9: no evaluation returns (or stores) both a profit_50 and a profit_80 alert,
\* whatever profit_pct, LOW and HIGH are.
C9_ProfitAlertsExclusive ==
    pc = "done" =>
        /\ ~({"profit_50", "profit_80"} \subseteq ReturnedTypes(lastEval))
        /\ ~({"profit_50", "profit_80"} \subseteq StoredTypes)

\* An evaluation with profit_pct >= HIGH >= LOW has returned profit_80.
C9_Witness ==
    /\ pc = "done"
    /\ "profit_80" \in ReturnedTypes(lastEval)
    /\ cfg.PROFIT_THRESHOLD_LOW = Frac(50, 100)
    /\ cfg.PROFIT_THRESHOLD_HIGH = Frac(80, 100)

ExpectedTypes ==
    LET q == Get(inp.quote)
        price == IF q.ask > 0 THEN q.ask ELSE q.last
        e == inp.position.entry_price
        k == inp.position.strike
        lo == cfg.PROFIT_THRESHOLD_LOW
        hi == cfg.PROFIT_THRESHOLD_HIGH
        \* profit_pct as n / d
        n == IF e > 0 THEN e - price ELSE 0
        d == IF e > 0 THEN e ELSE 1
        u == IF inp.underlying_quote = Null THEN 0 ELSE Get(inp.underlying_quote).last
        px == cfg.STRIKE_PROXIMITY_PCT
    IN  {ty \in AlertTypes :
           \/ ty = "profit_50" /\ lo.num * d <= n * lo.den /\ n * hi.den < hi.num * d
           \/ ty = "profit_80" /\ n * hi.den >= hi.num * d
           \/ ty = "strike_threatened" /\ u > 0 /\ k > 0
                 /\ Abs(u - k) * px.den <= px.num * k
           \/ ty = "expiration_approaching"
                 /\ inp.dte <= cfg.LOW_PROFIT_DTE_THRESHOLD /\ n * lo.den < lo.num * d}

HasPositivePrice ==
    /\ inp.quote # Null
    /\ Get(inp.quote).ask > 0 \/ Get(inp.quote).last > 0

\* C10: for a position with a positive current price the alert types one
\* evaluation returns are exactly those whose condition holds.
C10_DetectionExact ==
    (pc = "done" /\ HasPositivePrice) => ReturnedTypes(lastEval) = ExpectedTypes

\* The same for the evaluations that do not raise.
DetectionExactUnlessRaised ==
    (pc = "done" /\ HasPositivePrice /\ lastEval.raised = "none")
        => ReturnedTypes(lastEval) = ExpectedTypes

\* entry 6.50, ask 3.25, LOW 0.50, HIGH 0.80: profit_50 and neither profit_80 nor
\* expiration_approaching
DetectionExample ==
    (/\ pc = "done"
     /\ inp.position.entry_price = 650
     /\ inp.quote # Null
     /\ cfg = DefaultCfg
     /\ lastEval.raised = "none")
    => (Get(inp.quote).ask = 325
          => ReturnedTypes(lastEval) \cap
                {"profit_50", "profit_80", "expiration_approaching"} = {"profit_50"})

\* the price the evaluation is to use: the ask when positive, otherwise the last
SelectedPrice == IF Get(inp.quote).ask > 0 THEN Get(inp.quote).ask ELSE Get(inp.quote).last

\* the profit alerts due at current price p
ProfitTypesAt(p) ==
    LET e == inp.position.entry_price
        lo == cfg.PROFIT_THRESHOLD_LOW
        hi == cfg.PROFIT_THRESHOLD_HIGH
    IN  {ty \in {"profit_50", "profit_80"} :
           \/ /\ ty = "profit_50"
              /\ IF e > 0 THEN /\ (e - p) * lo.den >= lo.num * e
                               /\ (e - p) * hi.den < hi.num * e
                          ELSE lo.num <= 0 /\ hi.num > 0
           \/ /\ ty = "profit_80"
              /\ IF e > 0 THEN (e - p) * hi.den >= hi.num * e ELSE hi.num <= 0}

\* C11: an evaluation prices the position at the quote's ask when the ask is
\* positive and at its last otherwise; with no quote, or with neither positive, it
\* returns no alert, stores no alert and raises nothing.
C11_PriceSelectionAndSkip ==
    pc = "done" =>
        IF HasPositivePrice
        THEN StoredTypes \cap {"profit_50", "profit_80"} = ProfitTypesAt(SelectedPrice)
        ELSE /\ lastEval.returned = << >>
             /\ alerts = << >>
             /\ lastEval.raised = "none"

\* An evaluation of a quote without an ask has priced the position at the last
\* price (1.30 against an entry of 6.50) and stored profit_80.
C11_Witness ==
    /\ pc = "done"
    /\ inp.quote # Null
    /\ Get(inp.quote).ask <= 0
    /\ Get(inp.quote).last = 130
    /\ inp.position.entry_price = 650
    /\ cfg = DefaultCfg
    /\ StoredTypes \cap {"profit_50", "profit_80"} = {"profit_80"}

\* An evaluation without a usable price has been skipped.
SkipReached ==
    /\ pc = "done"
    /\ ~HasPositivePrice
    /\ inp.quote # Null
    /\ lastEval.returned = << >>

------------------------------------------------------------------------------
(* Properties of the evaluation cycle (under SpecCycle) *)

\* the ids of the positions evaluated so far in the cycle, in order
DoneIds == [i \in 1..Len(thread.done) |-> thread.done[i].id]

\* the lists the evaluations that did not raise have returned, in order
RECURSIVE ReturnedBy(_)
ReturnedBy(done) ==
    IF done = << >> THEN << >>
    ELSE (IF Head(done).raised = "none" THEN Head(done).returned ELSE << >>)
            \o ReturnedBy(Tail(done))

CycleReturned == thread.pc = "sleep" /\ thread.outcome = "returned"

\* C12: when the evaluation of one active position raises, the cycle still
\* evaluates every other active position, ends without raising and returns the
\* alerts of the other positions.
C12_FailureIsolation ==
    /\ thread.outcome # "raised"
    /\ CycleReturned =>
          /\ {DoneIds[i] : i \in 1..Len(DoneIds)} = thread.snapshot
          /\ thread.triggered = ReturnedBy(thread.done)

\* A cycle has returned in which one evaluation raised and a later one
\* returned an alert.
C12_Witness ==
    /\ CycleReturned
    /\ \E i, j \in 1..Len(thread.done) :
          /\ i < j
          /\ thread.done[i].raised # "none"
          /\ thread.done[j].returned # << >>
          /\ thread.triggered = thread.done[j].returned

\* a step in which the scheduler thread calls check_positions
IsCheckCall == due /\ ~due'

ActiveByStatus == {i \in DOMAIN short_calls : short_calls[i].status = "active"}
ActiveUnderLeaps == {i \in ActiveByStatus : short_calls[i].leaps_id \in DOMAIN leaps}

\* no position is evaluated twice in a cycle, only positions of the cycle's list
\* are evaluated, and a cycle that has returned has evaluated all of them
OnceEach ==
    /\ \A i, j \in 1..Len(DoneIds) : DoneIds[i] = DoneIds[j] => i = j
    /\ \A i \in 1..Len(DoneIds) : DoneIds[i] \in thread.snapshot \ thread.queue
    /\ thread.outcome \in {"running", "returned"} =>
          thread.snapshot = thread.queue \cup {DoneIds[i] : i \in 1..Len(DoneIds)}

\* an alert is stored only for a position of the running cycle's list
StoresForListedOnly ==
    \A j \in (Len(alerts) + 1)..Len(alerts') : alerts'[j].short_call_id \in thread.snapshot

\* C13: a cycle evaluates exactly the short calls whose status is 'active' when
\* it starts, once each, and none whose status is 'closed'; so a cycle started
\* after close(s) stores no alert for s.
C13_EvaluatesActiveOnceEach ==
    /\ []OnceEach
    /\ [][/\ StoresForListedOnly
          /\ (IsCheckCall /\ thread'.outcome # "skipped")
                => thread'.snapshot = ActiveByStatus]_vars

\* The same for the active short calls whose LEAPS row exists.
EvaluatesActiveUnderLeaps ==
    /\ []OnceEach
    /\ [][/\ StoresForListedOnly
          /\ (IsCheckCall /\ thread'.outcome # "skipped")
                => thread'.snapshot = ActiveUnderLeaps]_vars

\* A cycle started after /close 1 has returned the alerts of position 2 only.
ClosedIsNotEvaluated ==
    /\ CycleReturned
    /\ short_calls[1].status = "closed"
    /\ thread.snapshot = {2}
    /\ Len(thread.done) = 1

\* a weekday between 09:30:00 and 16:00:00, both included
InMarketWindow(weekday, tod) ==
    /\ weekday \in 0..4
    /\ tod >= 9 * 3600 + 30 * 60
    /\ tod <= 16 * 3600

\* the call changes nothing: no evaluation (the only place market data is
\* queried), no stored alert, no notification, no cycle begun
CallIsNoOp ==
    /\ thread'.pc = "sleep"
    /\ thread'.queue = {}
    /\ thread'.done = << >>
    /\ running' = running
    /\ UNCHANGED <<alerts, sent, lastEval, storeVars>>

\* C14: a timer invocation of check_positions on a weekend or outside the
\* market window evaluates no position, stores no alert and sends nothing; every
\* evaluation belongs to an invocation made inside the window.
C14_MarketHoursGate ==
    /\ [](thread.pc = "cycle" => InMarketWindow(thread.weekday, thread.tod))
    /\ [][(IsCheckCall /\ ~InMarketWindow(thread'.weekday, thread'.tod)) => CallIsNoOp]_vars

\* check_positions has been called one second after the close and did nothing.
C14_Witness ==
    /\ thread.outcome = "skipped"
    /\ thread.weekday = 4
    /\ thread.tod = 57601
    /\ thread.pc = "sleep"

\* check_positions has been called on a Saturday at noon and did nothing.
WeekendSkipped ==
    /\ thread.outcome = "skipped"
    /\ thread.weekday = 5

\* C15: at most one evaluation cycle is in progress in any reachable state; a
\* tick that falls due while a cycle runs starts the next cycle after it.
C15_CyclesNeverOverlap ==
    /\ [](running <= 1 /\ (running = 1 <=> thread.pc = "cycle"))
    /\ [][IsCheckCall => thread.pc = "sleep" /\ running = 0]_vars

\* The job has come due again while a cycle is still evaluating positions.
C15_Witness ==
    /\ running = 1
    /\ due
    /\ thread.queue # {}
    /\ thread.done # << >>

------------------------------------------------------------------------------
(* Properties of the scans (under SpecScan) *)

RollDone == pc = "done" /\ scan.kind = "roll" /\ scan.raised = "none"
NewCallDone == pc = "done" /\ scan.kind = "new_call" /\ scan.raised = "none"

Count(list, x) == Cardinality({i \in 1..Len(list) : list[i] = x})

\* `returned` has min(top_n, number of candidates) elements, all of them candidates
IsSelection(returned, candidates, top_n) ==
    /\ Len(returned) <= top_n
    /\ Len(returned) = Len(candidates) \/ Len(returned) = top_n
    /\ \A i \in 1..Len(returned) : Count(returned, returned[i]) <= Count(candidates, returned[i])

Omitted(returned, candidates) ==
    {candidates[i] : i \in 1..Len(candidates)} \ {returned[i] : i \in 1..Len(returned)}

\* a ranks strictly before b: greater roll credit, or equal credit and smaller delta
RollBefore(a, b) ==
    a.roll_credit > b.roll_credit \/ (a.roll_credit = b.roll_credit /\ a.delta < b.delta)

\* C16: find_roll_candidates returns the first top_n of the candidates in the
\* order of descending roll_credit, ties by ascending delta: at most top_n
\* elements, in that order, and no omitted candidate ranks strictly before a
\* returned one.
C16_RollRanking ==
    RollDone =>
        /\ IsSelection(scan.returned, scan.candidates, inp.top_n)
        /\ \A i, j \in 1..Len(scan.returned) :
              i < j => ~RollBefore(scan.returned[j], scan.returned[i])
        /\ \A x \in Omitted(scan.returned, scan.candidates) :
              \A i \in 1..Len(scan.returned) : ~RollBefore(x, scan.returned[i])

\* Candidates collected as (credit 5, delta 0.3), (5, 0.1), (2, 0.25) have been
\* returned as (5, 0.1), (5, 0.3), (2, 0.25).
C16_Witness ==
    /\ RollDone
    /\ Len(scan.candidates) = 3
    /\ [i \in 1..3 |-> <<scan.candidates[i].roll_credit, scan.candidates[i].delta>>]
          = << <<500, 300>>, <<500, 100>>, <<200, 250>> >>
    /\ Len(scan.returned) = 3
    /\ [i \in 1..3 |-> <<scan.returned[i].roll_credit, scan.returned[i].delta>>]
          = << <<500, 100>>, <<500, 300>>, <<200, 250>> >>

\* a / b > c / d and a / b = c / d for fractions with positive denominators
Greater(x, y) == x.num * y.den > y.num * x.den
Same(x, y) == x.num * y.den = y.num * x.den

\* a ranks strictly before b: greater annualized return, or equal return and
\* smaller delta
NewCallBefore(a, b) ==
    \/ Greater(a.annualized_return, b.annualized_return)
    \/ Same(a.annualized_return, b.annualized_return) /\ a.delta < b.delta

\* C17: find_new_call_candidates returns the first top_n of the candidates in
\* the order of descending annualized_return, ties by ascending delta: at most
\* top_n elements, with annualized_return non-increasing along the list.
C17_NewCallRanking ==
    NewCallDone =>
        /\ IsSelection(scan.returned, scan.candidates, inp.top_n)
        /\ \A i, j \in 1..Len(scan.returned) :
              i < j => /\ ~NewCallBefore(scan.returned[j], scan.returned[i])
                       /\ ~Greater(scan.returned[j].annualized_return,
                                   scan.returned[i].annualized_return)
        /\ \A x \in Omitted(scan.returned, scan.candidates) :
              \A i \in 1..Len(scan.returned) : ~NewCallBefore(x, scan.returned[i])

\* A new-call scan has returned three candidates out of more: the greatest
\* return first, then two of the same return with deltas 0.25 and 0.30.
C17_Witness ==
    /\ NewCallDone
    /\ Len(scan.candidates) > 3
    /\ Len(scan.returned) = 3
    /\ Greater(scan.returned[1].annualized_return, scan.returned[2].annualized_return)
    /\ Same(scan.returned[2].annualized_return, scan.returned[3].annualized_return)
    /\ scan.returned[2].delta = 250
    /\ scan.returned[3].delta = 300

\* the first k expirations of the Gateway's list whose DTE lies in lo..hi
FirstInWindow(lo, hi, k) ==
    LET list == inp.gateway.expirations
        InWindow(e) == e - inp.gateway.today >= lo /\ e - inp.gateway.today <= hi
    IN  {list[i] : i \in {n \in 1..Len(list) :
                            /\ InWindow(list[n])
                            /\ Cardinality({m \in 1..(n - 1) : InWindow(list[m])}) < k}}

RollExpirations ==
    FirstInWindow(25, 35, 2) \cup FirstInWindow(40, 50, 2) \cup FirstInWindow(55, 65, 2)
NewCallExpirations == FirstInWindow(30, 45, 3)

\* a call within 0.5 of current strike + 5, 10, 15 or 20 with |delta| <= 0.30
InRollGrid(option, current_strike) ==
    /\ option.option_type = "call"
    /\ \E offset \in {500, 1000, 1500, 2000} :
          /\ option.strike >= current_strike + offset - 50
          /\ option.strike <= current_strike + offset + 50
    /\ option.greeks # Null
    /\ Abs(Get(option.greeks)) <= 300

\* a call at least 1 above the LEAPS strike with 0.20 <= |delta| <= 0.30
InNewCallGrid(option, leaps_strike) ==
    /\ option.option_type = "call"
    /\ option.strike >= leaps_strike + 100
    /\ option.greeks # Null
    /\ Abs(Get(option.greeks)) >= 200
    /\ Abs(Get(option.greeks)) <= 300

\* the options a scan of this kind gets to see with a positive bid
Biddable(kind) ==
    {<<e, o>> \in (IF kind = "roll" THEN RollExpirations ELSE NewCallExpirations)
                   \X {oA, oB, oC, oD, oE, oF, oG, oH, oI, oJ} :
        /\ \E n \in 1..Len(inp.gateway.chain[e]) : inp.gateway.chain[e][n] = o
        /\ o.bid > 0
        /\ IF kind = "roll" THEN InRollGrid(o, 73000)
                            ELSE InNewCallGrid(o, inp.leaps_strike)}

IdIsMissing(kind) ==
    IF kind = "roll" THEN inp.id \notin DOMAIN short_calls ELSE inp.id \notin DOMAIN leaps

NoExpirationInWindow(kind) ==
    IF kind = "roll" THEN RollExpirations = {} ELSE NewCallExpirations = {}

\* a scan that finds nothing returns the empty list and raises nothing, and a
\* scan passes over the cells that yield nothing
DegradesToEmpty(kind) ==
    /\ (IdIsMissing(kind) \/ NoExpirationInWindow(kind) \/ Biddable(kind) = {})
          => scan.raised = "none" /\ scan.returned = << >>
    /\ ~IdIsMissing(kind) =>
          \A c \in Biddable(kind) :
              \E n \in 1..Len(scan.candidates) :
                  /\ scan.candidates[n].expiration = c[1]
                  /\ scan.candidates[n].symbol = c[2].symbol

\* C18: find_roll_candidates and find_new_call_candidates return an empty list
\* without raising when the id does not exist, when no expiration falls in the
\* DTE window and when no cell yields an option with a positive bid; an empty
\* cell does not stop the scan of the others.
C18_ScansDegradeToEmpty ==
    (pc = "done" /\ scan.kind \in {"roll", "new_call"}) => DegradesToEmpty(scan.kind)

\* The same for the roll scan and for the new-call scan of a LEAPS of non-zero
\* quantity.
ScansDegradeNonZeroQuantity ==
    (/\ pc = "done"
     /\ scan.kind \in {"roll", "new_call"}
     /\ (scan.kind = "new_call" /\ inp.id \in DOMAIN leaps) => leaps[inp.id].quantity # 0)
    => DegradesToEmpty(scan.kind)

\* A roll scan whose first expiration has an empty chain has found the
\* candidates of the later expirations.
EmptyCellPassedOver ==
    /\ RollDone
    /\ inp.gateway.expirations = <<30, 45, 60>>
    /\ inp.gateway.chain[30] = << >>
    /\ Len(scan.candidates) = 4

\* the short call being rolled
RolledPosition == short_calls[inp.id]

\* C19: in a roll scan the closing cost is the ask of the existing short
\* option's quote, or 0 without a quote; every candidate has bid > 0,
\* roll_credit = bid - closing cost and net_credit = roll_credit * quantity * 100;
\* every option of the grid with bid > 0 is a candidate, whatever its credit.
C19_RollCredit ==
    (RollDone /\ ~IdIsMissing("roll")) =>
        /\ scan.close_cost = IF inp.gateway.current_quote = Null THEN 0
                              ELSE Get(inp.gateway.current_quote).ask
        /\ \A n \in 1..Len(scan.candidates) :
              LET c == scan.candidates[n]
              IN  /\ c.bid > 0
                  /\ c.close_cost = scan.close_cost
                  /\ c.roll_credit = c.bid - scan.close_cost
                  /\ c.net_credit = c.roll_credit * RolledPosition.quantity * 100
        /\ \A b \in Biddable("roll") :
              \E n \in 1..Len(scan.candidates) :
                  /\ scan.candidates[n].expiration = b[1]
                  /\ scan.candidates[n].symbol = b[2].symbol
                  /\ scan.candidates[n].bid = b[2].bid

\* A roll scan with a closing cost of 7.00 has a candidate of bid 5.00, roll
\* credit -2.00 and net credit -400.00 for 2 contracts.
C19_Witness ==
    /\ RollDone
    /\ scan.close_cost = 700
    /\ \E n \in 1..Len(scan.candidates) :
          /\ scan.candidates[n].bid = 500
          /\ scan.candidates[n].roll_credit = -200
          /\ scan.candidates[n].net_credit = -40000

\* the candidate is an option of the roll grid at one of the scanned expirations
InRollBounds(c) ==
    /\ \E offset \in {500, 1000, 1500, 2000} :
          /\ c.strike >= RolledPosition.strike + offset - 50
          /\ c.strike <= RolledPosition.strike + offset + 50
    /\ c.strike > RolledPosition.strike
    /\ c.delta >= 0
    /\ c.delta <= 300
    /\ c.expiration \in RollExpirations

\* C20: every roll candidate has a strike within 0.5 of current strike + 5, 10,
\* 15 or 20, an absolute delta of at most ROLL_MAX_DELTA and an expiration among
\* the first 2 whose DTE is within 5 days of 30, 45 or 60; no option appears
\* twice among the candidates.
C20_RollGridBounds ==
    (RollDone /\ ~IdIsMissing("roll")) =>
        /\ \A n \in 1..Len(scan.candidates) : InRollBounds(scan.candidates[n])
        /\ \A m, n \in 1..Len(scan.candidates) :
              (/\ scan.candidates[m].symbol = scan.candidates[n].symbol
               /\ scan.candidates[m].expiration = scan.candidates[n].expiration)
              => m = n

\* A roll scan of three expirations in one window and a chain with options
\* inside and outside the grid has kept the grid's options of the first two.
C20_Witness ==
    /\ RollDone
    /\ inp.gateway.expirations = <<25, 30, 35>>
    /\ Len(inp.gateway.chain[30]) = 10
    /\ {scan.candidates[n].expiration : n \in 1..Len(scan.candidates)} = {25, 30}
    /\ {scan.candidates[n].symbol : n \in 1..Len(scan.candidates)} = {"A", "B", "C"}
    /\ Len(scan.candidates) = 6

\* the options of the chains of the new-call scan's expirations
NewCallOffers ==
    {<<e, o>> \in NewCallExpirations \X {oA, oB, oC, oD, oE, oF, oG, oH, oI, oJ} :
        \E n \in 1..Len(inp.gateway.chain[e]) : inp.gateway.chain[e][n] = o}

IsCandidate(offer) ==
    \E n \in 1..Len(scan.candidates) :
        /\ scan.candidates[n].expiration = offer[1]
        /\ scan.candidates[n].symbol = offer[2].symbol
        /\ scan.candidates[n].strike = offer[2].strike

\* every candidate lies within the new-call grid, above `floor`
NewCallCandidatesWithin(floor) ==
    \A n \in 1..Len(scan.candidates) :
        LET c == scan.candidates[n]
        IN  /\ c.bid > 0
            /\ c.strike > inp.leaps_strike
            /\ c.strike >= floor
            /\ c.delta >= 200
            /\ c.delta <= 300
            /\ c.expiration \in NewCallExpirations
            /\ c.dte >= 30
            /\ c.dte <= 45

\* every offered call above the LEAPS strike with a strike of `floor` or more,
\* a positive bid and a delta in the band is a candidate
NewCallCandidatesCover(floor) ==
    \A offer \in NewCallOffers :
        (/\ offer[2].option_type = "call"
         /\ offer[2].strike > inp.leaps_strike
         /\ offer[2].strike >= floor
         /\ offer[2].bid > 0
         /\ offer[2].greeks # Null
         /\ Abs(Get(offer[2].greeks)) >= 200
         /\ Abs(Get(offer[2].greeks)) <= 300)
        => IsCandidate(offer)

\* C21: every new-call candidate has bid > 0, a strike above the LEAPS strike,
\* |delta| within [TARGET_DELTA_MIN, TARGET_DELTA_MAX] and one of the first 3
\* expirations with DTE in [TARGET_DTE_MIN, TARGET_DTE_MAX]; conversely every
\* call above the LEAPS strike meeting the bid, delta and expiration conditions
\* is a candidate before truncation.
C21_NewCallGridBounds ==
    (NewCallDone /\ ~IdIsMissing("new_call")) =>
        /\ NewCallCandidatesWithin(inp.leaps_strike)
        /\ NewCallCandidatesCover(inp.leaps_strike)

\* The same with the grid starting 1.00 above the LEAPS strike.
NewCallGridFromOneAbove ==
    (NewCallDone /\ ~IdIsMissing("new_call")) =>
        /\ NewCallCandidatesWithin(inp.leaps_strike + 100)
        /\ NewCallCandidatesCover(inp.leaps_strike + 100)

\* A new-call scan of four expirations in the window has candidates of the
\* first three only.
FirstThreeExpirations ==
    /\ NewCallDone
    /\ inp.gateway.expirations = <<30, 35, 36, 45>>
    /\ {scan.candidates[n].expiration : n \in 1..Len(scan.candidates)} = {30, 35, 36}

------------------------------------------------------------------------------
(* Properties of the annualized return (under SpecScan) *)

ReturnDone == pc = "done" /\ scan.kind = "annualized_return"

\* the adjusted cost basis of the scanned LEAPS
ScanBasis == get_adjusted_cost_basis(leaps, cost_basis_history, inp.id).value

\* f is the quotient y / x of positive integers (f in lowest terms)
IsQuotient(f, y, x) ==
    /\ f.den > 0
    /\ x % f.den = 0
    /\ f.num * (x \div f.den) = y

\* value is (per_contract / cost_basis) * (365 / dte) * 100, or exactly 0 when
\* the basis or the DTE is not positive
IsAnnualized(value, per_contract, cost_basis, dte) ==
    IF cost_basis.num <= 0 \/ dte <= 0
    THEN value = Frac(0, 1)
    ELSE IsQuotient(value, per_contract * cost_basis.den * 36500, cost_basis.num * dte)

PositiveReturn ==
    /\ NewCallDone
    /\ ScanBasis.num > 0
    /\ \E n \in 1..Len(scan.candidates) : scan.candidates[n].annualized_return.num > 0

\* The return of an expired option on a positive basis is 0.
ExpiredReturnsZero ==
    /\ ReturnDone
    /\ scan.returned[1].dte <= 0
    /\ scan.returned[1].cost_basis.num > 0
    /\ scan.returned[1].annualized_return = Frac(0, 1)

------------------------------------------------------------------------------
(* Properties of the status query (under SpecBot) *)

IsStatusQuery == reply' # reply /\ reply'.cmd = "status"

StatusIsReadOnly ==
    IsStatusQuery =>
        UNCHANGED <<leaps, short_calls, cost_basis_history, alerts, leaps_seq, short_seq>>

PriceFields == {"current_price", "profit_pct", "profit_dollars"}

StatusMarksMissing ==
    IsStatusQuery =>
        /\ reply'.id \notin DOMAIN short_calls => reply'.status = StatusNotFound
        /\ (/\ ShortCall_get_by_id(leaps, short_calls, reply'.id) # Null
            /\ reply'.quote = Null)
           => /\ "error" \in DOMAIN reply'.status
              /\ DOMAIN reply'.status \cap PriceFields = {}

\* C23: get_position_status writes no Store record; it returns a record with an
\* 'error' key and no price fields when no quote exists for the option, and an
\* empty record when the short call id does not exist.
C23_StatusIsReadOnly == [][StatusIsReadOnly /\ StatusMarksMissing]_vars

\* The status of a position without a quote has been asked for while an
\* unacknowledged alert and a ledger row are stored.
C23_Witness ==
    /\ reply.cmd = "status"
    /\ reply.id = 1
    /\ reply.quote = Null
    /\ reply.status = NoQuoteAvailable
    /\ Alert_get_unacknowledged(alerts) # << >>
    /\ cost_basis_history # << >>

\* The status of an id without a row is the empty record.
StatusOfMissingId ==
    /\ reply.cmd = "status"
    /\ reply.id = 4
    /\ reply.status = StatusNotFound
    /\ short_calls # EmptyTable

\* A status with prices.
StatusWithPrices ==
    /\ reply.cmd = "status"
    /\ PriceFields \subseteq DOMAIN reply.status

------------------------------------------------------------------------------
(* Properties of the alert table (under SpecBot) *)

\* the rows present before and after a step
Kept == 1..Min(Len(alerts), Len(alerts'))

UnacknowledgedIds(store) ==
    {Alert_get_unacknowledged(store)[n].id : n \in 1..Len(Alert_get_unacknowledged(store))}

StoredUnacknowledged ==
    \A i \in (Len(alerts) + 1)..Len(alerts') : alerts'[i].acknowledged = 0

IsAcknowledgeCall == reply'.cmd = "acknowledge" /\ (reply' # reply \/ alerts' # alerts)

AcknowledgeSetsOneFlag ==
    IsAcknowledgeCall =>
        /\ Len(alerts') = Len(alerts)
        /\ \A i \in 1..Len(alerts) :
              alerts'[i] = IF alerts[i].id = reply'.id
                           THEN [alerts[i] EXCEPT !.acknowledged = 1]
                           ELSE alerts[i]
        /\ reply'.id \notin UnacknowledgedIds(alerts')

AcknowledgedStaysOut ==
    \A i \in Kept :
        alerts[i].acknowledged = 1 =>
            /\ alerts'[i].acknowledged = 1
            /\ alerts'[i].id = alerts[i].id
            /\ alerts[i].id \notin UnacknowledgedIds(alerts')

OnlyAcknowledgeChangesAlerts ==
    \A i \in Kept :
        \/ alerts'[i] = alerts[i]
        \/ /\ reply'.cmd = "acknowledge"
           /\ reply'.id = alerts[i].id
           /\ alerts'[i] = [alerts[i] EXCEPT !.acknowledged = 1]

UnacknowledgedAreTheUnset ==
    LET listed == Alert_get_unacknowledged(alerts)
    IN  /\ {listed[n] : n \in 1..Len(listed)}
             = {alerts[i] : i \in {j \in 1..Len(alerts) : alerts[j].acknowledged = 0}}
        /\ Len(listed) = Cardinality({j \in 1..Len(alerts) : alerts[j].acknowledged = 0})

\* C24: every alert is stored unacknowledged; acknowledge(id) sets only that
\* alert's flag, after which get_unacknowledged never returns it again; no other
\* operation changes a field of an existing alert; get_unacknowledged returns
\* exactly the alerts whose flag is unset.
C24_AlertLifecycle ==
    /\ []UnacknowledgedAreTheUnset
    /\ [][/\ StoredUnacknowledged
          /\ AcknowledgeSetsOneFlag
          /\ AcknowledgedStaysOut
          /\ OnlyAcknowledgeChangesAlerts]_vars

\* Of two stored alerts the first has been acknowledged, and the second is the
\* one get_unacknowledged returns.
C24_Witness ==
    /\ Len(alerts) = 2
    /\ reply.cmd = "acknowledge"
    /\ reply.id = 1
    /\ alerts[1].acknowledged = 1
    /\ alerts[2].acknowledged = 0
    /\ UnacknowledgedIds(alerts) = {2}

------------------------------------------------------------------------------
(* Properties of the conversation state (under SpecChat) *)

Elems(list) == {list[n] : n \in 1..Len(list)}

\* the list without the keys in S, in its order
Without(list, S) == SelectSeq(list, LAMBDA key : key \notin S)

IsStartCall ==
    /\ reply'.cmd = "start_conversation"
    /\ reply' # reply \/ conversations' # conversations

IsUpdateCall ==
    /\ reply'.cmd = "update_params"
    /\ reply' # reply \/ conversations' # conversations

IsActiveCall ==
    /\ reply'.cmd = "is_active"
    /\ reply' # reply \/ conversations' # conversations

\* the collected parameters are those supplied since the start
CollectsSupplied ==
    /\ IsStartCall => get_collected_params(conversations', reply'.user_id) = NoParams
    /\ (IsUpdateCall /\ reply'.user_id \in DOMAIN conversations) =>
          LET before == get_collected_params(conversations, reply'.user_id)
              after == get_collected_params(conversations', reply'.user_id)
          IN  /\ DOMAIN after = DOMAIN before \cup DOMAIN reply'.params
              /\ \A k \in DOMAIN reply'.params : after[k] = reply'.params[k]
              /\ get_intent(conversations', reply'.user_id)
                    = get_intent(conversations, reply'.user_id)

MissingIsRequiredMinusSupplied ==
    \A user_id \in ChatUsers :
        IF user_id \in DOMAIN conversations
        THEN LET required == REQUIRED_PARAMS(conversations[user_id].intent)
                 supplied == DOMAIN get_collected_params(conversations, user_id)
             IN  /\ get_missing_params(conversations, user_id) = Without(required, supplied)
                 /\ is_complete(conversations, user_id) <=> Elems(required) \subseteq supplied
        ELSE ~is_complete(conversations, user_id)

\* C25: missing_params equals the intent's required parameters minus the keys
\* supplied since start_conversation, and is_complete(user) is true exactly when
\* every required parameter has been supplied: at once for an intent without
\* required parameters, never for a user without a conversation.
C25_ConversationCompleteness ==
    []MissingIsRequiredMinusSupplied /\ [][CollectsSupplied]_vars

\* A 'close' conversation has become complete by two updates, while another
\* user's 'roll' conversation still misses its parameter.
C25_Witness ==
    /\ reply.cmd = "update_params"
    /\ reply.user_id = 1
    /\ 1 \in DOMAIN conversations
    /\ conversations[1].intent = "close"
    /\ conversations[1].turn_count = 2
    /\ is_complete(conversations, 1)
    /\ 2 \in DOMAIN conversations
    /\ conversations[2].intent = "roll"
    /\ get_missing_params(conversations, 2) = <<"short_call_id">>

\* A conversation of an intent without required parameters is complete at once.
CompleteAtOnce ==
    /\ reply.cmd = "start_conversation"
    /\ reply.intent = "positions"
    /\ is_complete(conversations, reply.user_id)

ChatOthersKept(user_id) ==
    \A u \in ChatUsers \ {user_id} :
        /\ u \in DOMAIN conversations' <=> u \in DOMAIN conversations
        /\ u \in DOMAIN conversations => conversations'[u] = conversations[u]

\* after start_conversation the user is active with that intent and nothing
\* collected
StartActivates ==
    IsStartCall =>
        /\ is_active(conversations', now', reply'.user_id).result
        /\ is_active(conversations', now', reply'.user_id).conversations = conversations'
        /\ get_intent(conversations', reply'.user_id) = Some(reply'.intent)
        /\ get_collected_params(conversations', reply'.user_id) = NoParams
        /\ ChatOthersKept(reply'.user_id)

\* the time of the user's last start or update
LastTouched(user_id) == conversations[user_id].last_updated

ActiveUntilTimeout ==
    IsActiveCall =>
        LET user_id == reply'.user_id
            known == user_id \in DOMAIN conversations
        IN  /\ reply'.result <=> (known /\ now - LastTouched(user_id) <= 300)
            /\ (known /\ now - LastTouched(user_id) > 300) =>
                  /\ user_id \notin DOMAIN conversations'
                  /\ get_intent(conversations', user_id) = Null
                  /\ get_collected_params(conversations', user_id) = NoParams
                  /\ get_missing_params(conversations', user_id) = << >>
            /\ reply'.result => conversations' = conversations
            /\ ChatOthersKept(user_id)

\* last_updated is the time of the last start or update
TouchedByStartAndUpdate ==
    /\ \A u \in DOMAIN conversations :
          (u \in DOMAIN conversations' /\ LastTouched(u) # conversations'[u].last_updated)
          => /\ reply'.cmd \in {"start_conversation", "update_params"}
             /\ reply'.user_id = u
    /\ (IsStartCall \/ (IsUpdateCall /\ reply'.user_id \in DOMAIN conversations)) =>
          conversations'[reply'.user_id].last_updated = now'

\* C26: after start_conversation(user, intent) is_active(user) is true and
\* get_intent(user) is that intent, with nothing collected; is_active(user) is
\* false for a user without a conversation and when more than 5 minutes have
\* passed since the last start or update, and then the call removes the
\* conversation with its intent and parameters.
C26_ConversationTimeout ==
    [][StartActivates /\ ActiveUntilTimeout /\ TouchedByStartAndUpdate]_vars

\* is_active has found a conversation with collected parameters timed out and
\* removed it, while the other user's later conversation stays.
C26_Witness ==
    /\ reply.cmd = "is_active"
    /\ reply.user_id = 1
    /\ ~reply.result
    /\ now = 301
    /\ 1 \notin DOMAIN conversations
    /\ 2 \in DOMAIN conversations
    /\ conversations[2].last_updated = 300

\* A conversation is still active exactly 5 minutes after its start.
ActiveAtFiveMinutes ==
    /\ reply.cmd = "is_active"
    /\ reply.result
    /\ now = 300
    /\ conversations[reply.user_id].last_updated = 0

\* A restart has discarded the collected parameters.
Restarted ==
    /\ reply.cmd = "start_conversation"
    /\ reply.user_id = 1
    /\ reply.intent = "roll"
    /\ conversations[1].collected_params = NoParams
    /\ conversations[1].last_updated = 301

------------------------------------------------------------------------------
(* Properties of /clear (under SpecBot) *)

IsClearCall ==
    /\ reply'.cmd = "clear"
    /\ reply' # reply \/ leaps' # leaps

\* the word "confirm" in any mix of upper and lower case
ConfirmSpellings ==
    {w \in [1..7 -> {"c", "o", "n", "f", "i", "r", "m", "C", "O", "N", "F", "I", "R", "M"}] :
        \A i \in 1..7 :
            w[i] \in {<<"c", "o", "n", "f", "i", "r", "m">>[i],
                      <<"C", "O", "N", "F", "I", "R", "M">>[i]}}

Confirmed(args) == Len(args) > 0 /\ args[1] \in ConfirmSpellings

AllTablesEmpty ==
    /\ leaps = EmptyTable
    /\ short_calls = EmptyTable
    /\ alerts = << >>
    /\ cost_basis_history = << >>

NothingLeft ==
    /\ ShortCall_get_active(leaps, short_calls) = {}
    /\ \A id \in 1..(MaxShorts + 3) : ShortCall_get_by_id(leaps, short_calls, id) = Null
    /\ \A id \in 1..(MaxLeaps + 1) :
          /\ LeapsPosition_get_by_id(leaps, id) = Null
          /\ total_adjustments(cost_basis_history, id) = 0
    /\ Alert_get_unacknowledged(alerts) = << >>

ClearNeedsConfirm ==
    IsClearCall =>
        IF Confirmed(reply'.args)
        THEN AllTablesEmpty' /\ NothingLeft'
        ELSE UNCHANGED <<leaps, short_calls, cost_basis_history, alerts>>

\* C27: /clear without the argument 'confirm' (in any case) leaves every LEAPS,
\* short call, alert and ledger row unchanged; with it, all four tables are
\* empty afterwards: no active position, no unacknowledged alert and no
\* cost-basis adjustment exists.
C27_ClearNeedsConfirm == [][ClearNeedsConfirm]_vars

\* /clear CONFIRM has emptied the tables.
C27_Witness ==
    /\ reply.cmd = "clear"
    /\ reply.outcome = "ok"
    /\ reply.args = << <<"C", "O", "N", "F", "I", "R", "M">> >>
    /\ AllTablesEmpty

\* /clear yes confirm has been refused while all four tables hold rows.
ClearRefused ==
    /\ reply.cmd = "clear"
    /\ reply.outcome = "usage"
    /\ reply.args = << <<"y", "e", "s">>, <<"c", "o", "n", "f", "i", "r", "m">> >>
    /\ leaps # EmptyTable
    /\ short_calls # EmptyTable
    /\ alerts # << >>
    /\ cost_basis_history # << >>

------------------------------------------------------------------------------
(* Properties of the commands' input validation (under SpecBot) *)

StoreUnchanged ==
    UNCHANGED <<leaps, short_calls, cost_basis_history, alerts, leaps_seq, short_seq>>

Rejected(cmd) == reply'.cmd = cmd /\ reply'.outcome \in {"usage", "invalid"}

\* fewer than two arguments, or an id or a price that is not a number
BadCloseArgs(args) ==
    \/ Len(args) < 2
    \/ ~args[1].numeric
    \/ ~args[2].numeric

ValidationLeavesStore ==
    /\ \A args \in BotCloseArgs :
          (BadCloseArgs(args) /\ cmd_close(args, "none")) =>
              Rejected("close") /\ StoreUnchanged
    /\ \A args \in RollArgs :
          (Len(args) = 0 /\ cmd_roll(args, BotGateway)) =>
              Rejected("roll") /\ StoreUnchanged
    /\ \A args \in BotAddLeapsArgs :
          (Len(args) < 5 /\ cmd_add_leaps(args)) =>
              Rejected("add_leaps") /\ StoreUnchanged
    /\ (reply' # reply /\ (Rejected("close") \/ Rejected("roll") \/ Rejected("add_leaps")))
          => StoreUnchanged

\* C28: /close with fewer than two arguments or a non-numeric id or price, /roll
\* without an argument and /add_leaps with fewer than five arguments reply with
\* a usage or 'Invalid' message and create, close or modify no position, alert
\* or ledger row.
C28_ValidationLeavesStore == [][ValidationLeavesStore]_vars

\* /close with an id or a price that is not a number has been answered 'Invalid' while
\* all four tables hold rows and short call 2 is still active.
C28_Witness ==
    /\ reply.cmd = "close"
    /\ reply.outcome = "invalid"
    /\ leaps # EmptyTable
    /\ 2 \in DOMAIN short_calls
    /\ short_calls[2].status = "active"
    /\ alerts # << >>
    /\ cost_basis_history # << >>

\* /roll without an argument has been answered with its usage.
RollUsage == reply.cmd = "roll" /\ reply.outcome = "usage" /\ short_calls # EmptyTable

\* /close 1 nan has been answered with the error of the failed INSERT.
CloseNanFails ==
    /\ reply.cmd = "close"
    /\ reply.outcome = "error"
    /\ reply.error = "DatabaseError"
    /\ reply.id = 1
    /\ 1 \in DOMAIN short_calls
    /\ short_calls[1].status = "active"

------------------------------------------------------------------------------
(* Properties of ShortCall.add (under SpecStore) *)

\* get_by_id returns the row, get_active lists it while it is active, and close
\* finds it
Visible(id) ==
    /\ ShortCall_get_by_id(leaps, short_calls, id) = Some(short_calls[id])
    /\ short_calls[id].status = "active" => id \in ShortCall_get_active(leaps, short_calls)
    /\ ShortCall_close(leaps, short_calls, cost_basis_history, id, 0, "none").raised
          # "ValueError"

\* C29: every short call stored by ShortCall.add references an existing
\* LeapsPosition, so it is retrievable by get_by_id, listed by get_active while
\* its status is 'active', and can be closed.
C29_ShortCallsContained ==
    \A id \in DOMAIN short_calls :
        /\ short_calls[id].leaps_id \in DOMAIN leaps
        /\ Visible(id)

\* The queries see every short call whose LEAPS row exists.
ContainedAreVisible ==
    \A id \in DOMAIN short_calls :
        short_calls[id].leaps_id \in DOMAIN leaps => Visible(id)

\* A short call stored under a LEAPS id without a row.
StoredOrphan ==
    \E id \in DOMAIN short_calls :
        /\ short_calls[id].leaps_id \notin DOMAIN leaps
        /\ short_calls[id].status = "active"
        /\ reply.cmd = "add_short"
        /\ reply.outcome = "ok"

------------------------------------------------------------------------------
(* Properties of the roll's dates (under SpecScan) *)

\* every candidate returned expires `days` or more after today
RollReturnedFrom(days) ==
    \A n \in 1..Len(scan.returned) : scan.returned[n].expiration >= days

\* C30: every candidate returned by find_roll_candidates has an expiration later
\* than the expiration of the short call being rolled, whatever that expiration
\* is (also one whose DTE exceeds 65 days).
C30_RollIsLaterDated ==
    RollDone => RollReturnedFrom(inp.current_expiration + 1)

\* Every candidate returned expires 25 to 65 days from today.
RollIsWithinWindows ==
    RollDone =>
        /\ RollReturnedFrom(25)
        /\ \A n \in 1..Len(scan.returned) : scan.returned[n].expiration <= 65

\* A roll of a short call expiring in 70 days has returned a candidate that
\* expires in 30 days.
RolledBackwards ==
    /\ RollDone
    /\ inp.current_expiration = 70
    /\ \E n \in 1..Len(scan.returned) : scan.returned[n].expiration = 30

------------------------------------------------------------------------------
(* Properties of the premium per contract (under SpecScan) *)

\* quantities of a LEAPS other than the stored one
OtherQuantities == {1, 3}

\* the candidate that the scan builds from the same option, expiration, DTE and
\* adjusted basis for a LEAPS of `quantity` contracts
CandidateFor(c, quantity) ==
    NewCallCandidate(Option(c.symbol, "call", c.strike, c.bid, Some(c.delta)),
                     c.expiration, c.dte, quantity, ScanBasis)

\* C31: for a fixed option bid, adjusted per-contract cost basis and DTE, the
\* annualized_return of a new-call candidate is the same for every LEAPS
\* quantity (the premium handed to calculate_annualized_return is the premium
\* per contract).
C31_ReturnPerContract ==
    NewCallDone =>
        \A n \in 1..Len(scan.candidates) : \A quantity \in OtherQuantities :
            FracEq(scan.candidates[n].annualized_return,
                   CandidateFor(scan.candidates[n], quantity).annualized_return)

\* The return of a candidate is the return on bid * quantity: it grows with the
\* number of contracts while the basis it is divided by is per contract.
ReturnScalesWithQuantity ==
    NewCallDone =>
        \A n \in 1..Len(scan.candidates) :
            LET c == scan.candidates[n]
            IN  /\ CandidateFor(c, leaps[inp.id].quantity).annualized_return
                     = c.annualized_return
                /\ IsAnnualized(c.annualized_return, c.bid * leaps[inp.id].quantity,
                                ScanBasis, c.dte)

\* A candidate for a LEAPS of 2 contracts has twice the return that the same
\* option has for a LEAPS of 1 contract.
ReturnDoubled ==
    /\ NewCallDone
    /\ inp.id \in DOMAIN leaps
    /\ leaps[inp.id].quantity = 2
    /\ \E n \in 1..Len(scan.candidates) :
          LET c == scan.candidates[n]
              one == CandidateFor(c, 1).annualized_return
          IN  /\ one.num > 0
              /\ FracEq(c.annualized_return, Frac(2 * one.num, one.den))

------------------------------------------------------------------------------
(* Properties of the notifications (under SpecCycle) *)

\* C32: over any sequence of scheduler cycles at most one notification is sent
\* per stored alert: a trigger that _create_alert deduplicates against an
\* existing alert does not make check_positions send the message again.
C32_NoRenotification ==
    \A id \in DOMAIN notified : notified[id] <= 1

\* Only stored alerts are notified, and a cycle notifies an alert at most once.
NotifiedAreStored ==
    /\ DOMAIN notified \subseteq 1..Len(alerts)
    /\ \A i, j \in 1..Len(sent) : sent[i] = sent[j] => i = j
    /\ \A i \in 1..Len(sent) : sent[i] \in DOMAIN notified

\* One alert is stored, and two cycles have each sent its message.
Renotified ==
    /\ Len(alerts) = 1
    /\ thread.pc = "sleep"
    /\ sent = <<1>>
    /\ notified[1] = 2

------------------------------------------------------------------------------
(* Properties of the list a cycle returns (under SpecCycle) *)

\* the alerts inserted by the step are in the list the cycle has collected
InsertedAreCollected ==
    \A id \in (Len(alerts) + 1)..Len(alerts') :
        \E n \in 1..Len(thread'.triggered) : thread'.triggered[n].id = id

\* C33: each alert that check_all_positions newly inserts into the Store is
\* contained in the list it returns, including when a later step of evaluating
\* the same position raises an exception.
C33_StoredAreReturned ==
    [][InsertedAreCollected]_vars

\* The alerts inserted by an evaluation that does not raise are in the list.
StoredAreReturnedUnlessRaised ==
    [][lastEval'.raised = "none" => InsertedAreCollected]_vars

\* A cycle has returned after the evaluation of the position with strike 0
\* stored an alert and then raised: the alert is in the table, and it was
\* neither returned nor sent.
StoredNotReturned ==
    /\ CycleReturned
    /\ \E id \in 1..Len(alerts) :
          /\ alerts[id].short_call_id = 2
          /\ id \notin DOMAIN notified
          /\ \E i \in 1..Len(thread.done) :
                /\ thread.done[i].id = 2
                /\ thread.done[i].raised = "ZeroDivisionError"

------------------------------------------------------------------------------
(* Properties of the ledger's adjusted_cost (under SpecCycle) *)

\* the step has appended a row to the ledger
AppendedRow == Len(cost_basis_history') = Len(cost_basis_history) + 1

\* get_adjusted_cost_basis of the row's LEAPS on the tables after the step
BasisAfter(row) == get_adjusted_cost_basis(leaps', cost_basis_history', row.leaps_id).value

\* C34: for every CostBasisAdjustment row, and for any sequence of closes of
\* short calls under the same LEAPS, the row's adjusted_cost equals
\* get_adjusted_cost_basis(leaps) evaluated immediately after the close that
\* appended the row.
C34_RecordedIsBasisAfter ==
    [][AppendedRow =>
          LET row == cost_basis_history'[Len(cost_basis_history')]
          IN  FracEq(row.adjusted_cost, BasisAfter(row))]_vars

\* The row of the first close under a LEAPS records the basis after that close;
\* every row records the entry cost less its own adjustment alone.
RecordedIgnoresEarlierRows ==
    [][AppendedRow =>
          LET row == cost_basis_history'[Len(cost_basis_history')]
              lp == leaps[row.leaps_id]
          IN  /\ total_adjustments(cost_basis_history, row.leaps_id) = 0
                    => FracEq(row.adjusted_cost, BasisAfter(row))
              /\ FracEq(row.adjusted_cost,
                        Frac(lp.entry_price * lp.quantity - row.adjustment_amount,
                             lp.quantity))]_vars

\* Short calls 1 and 2 of LEAPS 1 have been closed in turn; the second row
\* records 105.75 while the basis after its close is 102.50.
SecondRowOffBasis ==
    /\ Len(cost_basis_history) = 2
    /\ cost_basis_history[1].short_call_id # cost_basis_history[2].short_call_id
    /\ cost_basis_history[1].leaps_id = cost_basis_history[2].leaps_id
    /\ FracEq(cost_basis_history[2].adjusted_cost, Frac(10575, 1))
    /\ FracEq(get_adjusted_cost_basis(leaps, cost_basis_history, 1).value, Frac(10250, 1))

------------------------------------------------------------------------------
(* Properties of the status beside the evaluator (under SpecBot) *)

\* the quote as _check_position reads it: quote.get('ask', 0), quote.get('last', 0)
AsQuote(d) == Quote(DictGet(d, "ask", 0), DictGet(d, "last", 0))

\* a status with prices has been reported for a quote
StatusPriced == reply.cmd = "status" /\ "current_price" \in DOMAIN reply.status

\* the status reports the price and the profit_pct that _check_position uses
\* for the quote
StatusAgrees ==
    LET price == current_price_of(AsQuote(Get(reply.quote)))
    IN  /\ reply.status.current_price = price
        /\ FracEq(reply.status.profit_pct,
                  profit_pct_of(reply.status.position.entry_price, price))

\* C35: for every quote for which the evaluator does not skip the position
\* (ask > 0, or ask <= 0 and last > 0), get_position_status reports the same
\* current_price and profit_pct that _check_position uses for that quote.
C35_StatusAgreesWithEvaluator ==
    (StatusPriced /\ current_price_of(AsQuote(Get(reply.quote))) > 0) => StatusAgrees

\* They agree for a quote whose ask is positive and for one that has no ask.
StatusAgreesOnAsk ==
    (/\ StatusPriced
     /\ \/ DictGet(Get(reply.quote), "ask", 0) > 0
        \/ /\ "ask" \notin DOMAIN Get(reply.quote)
           /\ DictGet(Get(reply.quote), "last", 0) > 0)
    => StatusAgrees

\* For a quote of ask 0 and last 3.00 the status of a short call sold at 6.50
\* reports price 0 and a profit of 100%, where the evaluator uses 3.00.
StatusPriceZero ==
    /\ StatusPriced
    /\ Get(reply.quote) = Quote(0, 300)
    /\ current_price_of(AsQuote(Get(reply.quote))) = 300
    /\ reply.status.current_price = 0
    /\ FracEq(reply.status.profit_pct, Frac(1, 1))

------------------------------------------------------------------------------
(* Properties of the cycle beside /close (under SpecCycle) *)

\* the alerts inserted by the step are for short calls whose status is 'active'
InsertedForActive ==
    \A j \in (Len(alerts) + 1)..Len(alerts') :
        /\ alerts'[j].short_call_id \in DOMAIN short_calls
        /\ short_calls[alerts'[j].short_call_id].status = "active"

\* C36: with the evaluation cycle running in the scheduler thread and
\* ShortCall.close running in the bot's command handler, in every interleaving
\* an alert is inserted only for a short call whose status is 'active' at the
\* moment of the insert.
C36_NoAlertForClosed ==
    [][InsertedForActive]_vars

\* An alert is inserted only for a short call that was active when the cycle
\* read its list, and while no /close has closed it since, it is active.
InsertedForActiveAtStart ==
    [][\A j \in (Len(alerts) + 1)..Len(alerts') :
          /\ alerts'[j].short_call_id \in thread.snapshot
          /\ Len(cost_basis_history) = 0
                => short_calls[alerts'[j].short_call_id].status = "active"]_vars

\* /close 1 has run while the cycle, which listed short call 1 when it began,
\* has yet to evaluate it.
ClosedWhileListed ==
    /\ thread.pc = "cycle"
    /\ 1 \in thread.queue
    /\ short_calls[1].status = "closed"

------------------------------------------------------------------------------
(* Properties of a timed-out conversation (under SpecChat) *)

\* the conversation of the user is stored, and more than 5 minutes have passed
\* since its last start or update
StoredTimedOut(user_id) ==
    /\ user_id \in DOMAIN conversations
    /\ now - LastTouched(user_id) > 300

\* the step leaves the conversation of the user as it was: no parameter added,
\* last_updated not refreshed, not made complete
NotContinued(user_id) ==
    user_id \in DOMAIN conversations' =>
        /\ conversations'[user_id].collected_params
              = conversations[user_id].collected_params
        /\ conversations'[user_id].last_updated = conversations[user_id].last_updated
        /\ is_complete(conversations', user_id) => is_complete(conversations, user_id)

\* C37: if more than 5 minutes have passed since a conversation's last start or
\* update, then update_params for that user does not add parameters to it, does
\* not refresh its last_updated time and cannot make it complete, regardless of
\* whether is_active was called in between.
C37_TimedOutNotContinued ==
    [][(IsUpdateCall /\ StoredTimedOut(reply'.user_id)) => NotContinued(reply'.user_id)]_vars

\* is_active on a timed-out conversation deletes it, and update_params for a
\* user without a conversation changes nothing.
EndedOnceSeenInactive ==
    [][/\ (IsActiveCall /\ StoredTimedOut(reply'.user_id))
            => (~reply'.result /\ reply'.user_id \notin DOMAIN conversations')
       /\ (IsUpdateCall /\ reply'.user_id \notin DOMAIN conversations)
            => conversations' = conversations]_vars

\* A conversation last touched at 0 is still stored at 301, incomplete: no
\* is_active call has deleted it, and update_params will act on it.
TimedOutStillStored ==
    /\ now = 301
    /\ \E user_id \in DOMAIN conversations :
          /\ StoredTimedOut(user_id)
          /\ LastTouched(user_id) = 0
          /\ ~is_complete(conversations, user_id)
          /\ is_complete(update_params(conversations, now, user_id,
                                       [short_call_id |-> 5, exit_price |-> 325]), user_id)

------------------------------------------------------------------------------
(* Properties of the number of alerts of one evaluation (under SpecEval) *)

\* the alerts of the type among those the evaluation returned
ReturnedOfType(alert_type) ==
    {i \in 1..Len(lastEval.returned) : lastEval.returned[i].alert_type = alert_type}

\* C38: when LOW <= HIGH, expiration_approaching is never returned together
\* with profit_50 or profit_80, so one evaluation of one position returns at
\* most one of {profit_50, profit_80, expiration_approaching} plus at most one
\* strike_threatened alert.
C38_AtMostTwoAlerts ==
    (pc = "done" /\ FracLe(cfg.PROFIT_THRESHOLD_LOW, cfg.PROFIT_THRESHOLD_HIGH)) =>
        /\ "expiration_approaching" \in ReturnedTypes(lastEval)
              => ReturnedTypes(lastEval) \cap {"profit_50", "profit_80"} = {}
        /\ Cardinality(ReturnedOfType("profit_50") \cup ReturnedOfType("profit_80")
                          \cup ReturnedOfType("expiration_approaching")) <= 1
        /\ Cardinality(ReturnedOfType("strike_threatened")) <= 1
        /\ Len(lastEval.returned) <= 2
        /\ ReturnedTypes(lastEval) \subseteq AlertTypes

\* With LOW <= HIGH an evaluation has returned two alerts: strike_threatened
\* and expiration_approaching.
C38_Witness ==
    /\ pc = "done"
    /\ FracLe(cfg.PROFIT_THRESHOLD_LOW, cfg.PROFIT_THRESHOLD_HIGH)
    /\ Len(lastEval.returned) = 2
    /\ ReturnedTypes(lastEval) = {"strike_threatened", "expiration_approaching"}

\* With LOW <= HIGH an evaluation has returned strike_threatened beside a
\* profit alert.
ProfitAndStrike ==
    /\ pc = "done"
    /\ FracLe(cfg.PROFIT_THRESHOLD_LOW, cfg.PROFIT_THRESHOLD_HIGH)
    /\ ReturnedTypes(lastEval) = {"profit_80", "strike_threatened"}

\* With LOW > HIGH an evaluation has returned profit_80 together with
\* expiration_approaching.
ThreeWhenLowAboveHigh ==
    /\ pc = "done"
    /\ FracLt(cfg.PROFIT_THRESHOLD_HIGH, cfg.PROFIT_THRESHOLD_LOW)
    /\ {"profit_80", "expiration_approaching"} \subseteq ReturnedTypes(lastEval)

====
